---- MODULE Spec2Model ----
(***************************************************************************)
(* AG-UI Rust SDK: the event verifier of the community client crate        *)
(* (ag-ui-client/src/verify.rs), modelled as a state machine.  The         *)
(* variables named after the fields of EventVerifier are the program's     *)
(* state; the remaining variables record the last call and its verdict and *)
(* the history the protocol rules are stated over.                         *)
(*                                                                         *)
(* The client run engine (ag-ui-client/src/event_handler.rs and agent.rs)  *)
(* is modelled next to it: the fields of EventHandler, the stream returned *)
(* by EventVerifier::verify_stream and the locals of Agent::run_agent.     *)
(* Specifications:                                                         *)
(*   Spec        calls of EventVerifier::verify                            *)
(*   SpecStream  items polled from the stream of verify_stream             *)
(*   SpecFold    verifier-accepted events folded by the EventHandler       *)
(*   SpecHandler single calls of EventHandler::handle_event                *)
(*   SpecRun     Agent::run_agent                                          *)
(*   SpecFilter  one FilterToolCallsMiddleware transforming two streams    *)
(*   SpecManager clones of one StateManager called from two threads        *)
(*   SpecResponse run_agent_handler answering one request                  *)
(*   SpecIds     ID values built, serialized and deserialized              *)
(*   SpecPipeline a verified stream filtered and verified again            *)
(***************************************************************************)
EXTENDS Integers, FiniteSets, Sequences, TLC

VARIABLES
    active_messages,          \* HashSet<String>   verify.rs:32
    active_tool_calls,        \* HashSet<String>   verify.rs:34
    active_steps,             \* HashSet<String>   verify.rs:36
    run_started,              \* bool              verify.rs:38
    run_finished,             \* bool              verify.rs:40
    run_error,                \* bool              verify.rs:42
    first_event_received,     \* bool              verify.rs:44
    active_thinking,          \* bool              verify.rs:46
    active_thinking_message,  \* bool              verify.rs:48
    lastEvent,                \* the event of the last verify call
    lastOk,                   \* TRUE iff the last verify call returned Ok(())
    calls,                    \* "none", "one", "many": verify calls made so far
    runActive,                \* RUN_STARTED accepted, no RUN_FINISHED/RUN_ERROR accepted since
    errorAccepted,            \* some RUN_ERROR has been accepted
    finishedOpen,             \* RUN_FINISHED accepted, no RUN_STARTED accepted since
    errorSinceFinished,       \* a RUN_ERROR was accepted while finishedOpen
    thinkingOpen,             \* THINKING_START accepted, no THINKING_END accepted since
    transcript,               \* position of the call history in the legal-transcript grammar
    yielded,                  \* items the stream of verify_stream has yielded, in order
    messages,                 \* Vec<Message>     event_handler.rs:21
    state,                    \* StateT           event_handler.rs:22
    result,                   \* JsonValue        event_handler.rs:25
    subscribers,              \* Vec<Arc<dyn AgentSubscriber>>  event_handler.rs:24
    outcome,                  \* what the last handle_event call returned, and the hooks it invoked
    handled,                  \* handle_event calls made so far
    deltas,                   \* the deltas the folded events carried, per message and tool-call id
    notified,                 \* the notifications the last apply_mutation call dispatched, in order
    run,                      \* Agent::run_agent: where it is, its locals and what it returned
    filter,                   \* a FilterToolCallsMiddleware and the streams it transforms
    manager,                  \* a StateManager, the threads calling it and the calls completed
    response,                 \* run_agent_handler: the request, the agent's stream and the response
    identifiers,              \* ID values built, serialized and deserialized
    pipeline                  \* a stream, the middleware filtering it and the verifiers on both sides

verifierVars == <<active_messages, active_tool_calls, active_steps, run_started,
                  run_finished, run_error, first_event_received, active_thinking,
                  active_thinking_message>>

historyVars == <<lastEvent, lastOk, calls, runActive, errorAccepted, finishedOpen,
                 errorSinceFinished, thinkingOpen, transcript>>

streamVars == <<yielded>>

handlerVars == <<messages, state, result, subscribers>>

engineVars == <<handlerVars, outcome, handled, deltas, notified>>

runVars == <<run>>

filterVars == <<filter>>

managerVars == <<manager>>

clientVars == <<verifierVars, historyVars, streamVars, engineVars, runVars>>

responseVars == <<response>>

idVars == <<identifiers>>

pipelineVars == <<pipeline>>

vars == <<clientVars, filterVars, managerVars, responseVars, idVars, pipelineVars>>

-----------------------------------------------------------------------------
(* Identifiers.                                                            *)

\* Wire strings that Uuid::parse_str accepts: one UUID in its canonical
\* (lower-case) text and in upper case.
CanonicalUuidText == "550e8400-e29b-41d4-a716-446655440000"
UpperUuidText == "550E8400-E29B-41D4-A716-446655440000"
UuidTexts == {CanonicalUuidText, UpperUuidText}

\* Wire strings that are no UUID (e.g. LangGraph's lc_run--... format).
RawTexts == {"msg-1"}

\* The message-id strings events are built from.
MessageIdTexts == RawTexts \cup UuidTexts

\* ToolCallId is a plain string; step names are plain strings.
ToolCallIds == {"call_1", "call_2"}
StepNames == {"step-a", "step-b"}

\* Uuid::parse_str followed by Uuid's Display: the canonical text of the UUID.
UuidCanonical(s) == CanonicalUuidText

\* Uuid::new_v5(&ID_NAMESPACE, s.as_bytes()), as the canonical text of the result.
UuidV5(s) ==
    IF s = "msg-1"
    THEN "6f1c6d5e-0001-5000-8000-000000000001"
    ELSE "6f1c6d5e-ffff-5000-8000-00000000ffff"

\* MessageId::new: a UUID string is parsed, any other string is hashed and kept.
MessageIdNew(s) ==
    IF s \in UuidTexts
    THEN [uuid |-> UuidCanonical(s), raw |-> <<>>]
    ELSE [uuid |-> UuidV5(s), raw |-> <<s>>]

\* impl Display for MessageId: the original string if kept, else the UUID.
MessageIdToString(id) ==
    IF id.raw # <<>> THEN id.raw[1] ELSE id.uuid

\* e.message_id.to_string() for an event built from the wire string s.
MessageKey(s) == MessageIdToString(MessageIdNew(s))

MessageKeys == {MessageKey(s) : s \in MessageIdTexts}

-----------------------------------------------------------------------------
(* Events.                                                                 *)

NoId == "-"

RunTypes == {"RUN_STARTED", "RUN_FINISHED", "RUN_ERROR"}
TextTypes == {"TEXT_MESSAGE_START", "TEXT_MESSAGE_CONTENT", "TEXT_MESSAGE_END"}
ToolTypes == {"TOOL_CALL_START", "TOOL_CALL_ARGS", "TOOL_CALL_END"}
StepTypes == {"STEP_STARTED", "STEP_FINISHED"}
ThinkingStepTypes == {"THINKING_START", "THINKING_END"}
ThinkingMessageTypes == {"THINKING_TEXT_MESSAGE_START", "THINKING_TEXT_MESSAGE_CONTENT",
                         "THINKING_TEXT_MESSAGE_END"}
OtherTypes == {"TEXT_MESSAGE_CHUNK", "TOOL_CALL_CHUNK", "TOOL_CALL_RESULT",
               "STATE_SNAPSHOT", "STATE_DELTA", "MESSAGES_SNAPSHOT", "RAW", "CUSTOM"}

EventTypes == RunTypes \cup TextTypes \cup ToolTypes \cup StepTypes
              \cup ThinkingStepTypes \cup ThinkingMessageTypes \cup OtherTypes

Ev(t, i) == [type |-> t, id |-> i]

Events ==
    {Ev(t, NoId) : t \in RunTypes \cup ThinkingStepTypes \cup ThinkingMessageTypes \cup OtherTypes}
    \cup {Ev(t, i) : t \in TextTypes, i \in MessageIdTexts}
    \cup {Ev(t, i) : t \in ToolTypes, i \in ToolCallIds}
    \cup {Ev(t, i) : t \in StepTypes, i \in StepNames}

NoEvent == Ev("NONE", NoId)

-----------------------------------------------------------------------------
(* EventVerifier.                                                          *)

\* The verifier as a value: the fields of the struct.
Self ==
    [active_messages |-> active_messages,
     active_tool_calls |-> active_tool_calls,
     active_steps |-> active_steps,
     run_started |-> run_started,
     run_finished |-> run_finished,
     run_error |-> run_error,
     first_event_received |-> first_event_received,
     active_thinking |-> active_thinking,
     active_thinking_message |-> active_thinking_message]

\* EventVerifier::new
New ==
    [active_messages |-> {},
     active_tool_calls |-> {},
     active_steps |-> {},
     run_started |-> FALSE,
     run_finished |-> FALSE,
     run_error |-> FALSE,
     first_event_received |-> FALSE,
     active_thinking |-> FALSE,
     active_thinking_message |-> FALSE]

\* The two results of a step of verify: the verdict and the verifier it leaves.
Ok(v) == [ok |-> TRUE, v |-> v]
Err(v) == [ok |-> FALSE, v |-> v]

\* Faulty variant of reset_run_state: the thinking flags survive into the new run.
reset_run_state_KeepsThinking(v) ==
    [v EXCEPT !.active_messages = {},
              !.active_tool_calls = {},
              !.active_steps = {},
              !.run_finished = FALSE,
              !.run_error = FALSE,
              !.run_started = TRUE]

\* EventVerifier::reset_run_state
reset_run_state(v) ==
    [v EXCEPT !.active_messages = {},
              !.active_tool_calls = {},
              !.active_steps = {},
              !.active_thinking = FALSE,
              !.active_thinking_message = FALSE,
              !.run_finished = FALSE,
              !.run_error = FALSE,
              !.run_started = TRUE]

\* Faulty variant of RunErrorCheck: a new run may start after RUN_ERROR.
RunErrorCheck_AllowsRestart(v, e) == v.run_error /\ e.type # "RUN_STARTED"

\* verify, "Check if run has errored": TRUE iff the call returns the error.
RunErrorCheck(v, e) == v.run_error

\* Faulty variant of RunFinishedCheck: RUN_ERROR is refused after RUN_FINISHED.
RunFinishedCheck_RefusesRunError(v, e) ==
    v.run_finished /\ e.type # "RUN_STARTED"

\* verify, "Check if run has already finished": TRUE iff the call returns the error.
RunFinishedCheck(v, e) ==
    v.run_finished /\ e.type # "RUN_ERROR" /\ e.type # "RUN_STARTED"

\* Faulty variant of FirstEventCheck: only RUN_STARTED may come first.
FirstEventCheck_OnlyRunStarted(v, e) ==
    IF ~v.first_event_received
    THEN LET w == [v EXCEPT !.first_event_received = TRUE]
         IN  IF e.type # "RUN_STARTED" THEN Err(w) ELSE Ok(w)
    ELSE IF e.type = "RUN_STARTED"
         THEN IF v.run_started /\ ~v.run_finished
              THEN Err(v)
              ELSE IF v.run_finished THEN Ok(reset_run_state(v)) ELSE Ok(v)
         ELSE Ok(v)

\* verify, "Handle first event requirement and sequential RUN_STARTED".
\* first_event_received is assigned before the early return.
FirstEventCheck(v, e) ==
    IF ~v.first_event_received
    THEN LET w == [v EXCEPT !.first_event_received = TRUE]
         IN  IF e.type # "RUN_STARTED" /\ e.type # "RUN_ERROR" THEN Err(w) ELSE Ok(w)
    ELSE IF e.type = "RUN_STARTED"
         THEN IF v.run_started /\ ~v.run_finished
              THEN Err(v)
              ELSE IF v.run_finished THEN Ok(reset_run_state(v)) ELSE Ok(v)
         ELSE Ok(v)

\* Faulty variant of TextMessageStartArm: one text message at a time.
TextMessageStartArm_SingleMessage(v, e) ==
    LET message_id == MessageKey(e.id)
    IN  IF v.active_messages # {}
        THEN Err(v)
        ELSE Ok([v EXCEPT !.active_messages = @ \cup {message_id}])

\* match arm Event::TextMessageStart
TextMessageStartArm(v, e) ==
    LET message_id == MessageKey(e.id)
    IN  IF message_id \in v.active_messages
        THEN Err(v)
        ELSE Ok([v EXCEPT !.active_messages = @ \cup {message_id}])

\* match arm Event::TextMessageContent
TextMessageContentArm(v, e) ==
    LET message_id == MessageKey(e.id)
    IN  IF message_id \notin v.active_messages THEN Err(v) ELSE Ok(v)

\* Faulty variant of TextMessageEndArm: the message stays in the active set.
TextMessageEndArm_NoRemove(v, e) ==
    LET message_id == MessageKey(e.id)
    IN  IF message_id \notin v.active_messages THEN Err(v) ELSE Ok(v)

\* match arm Event::TextMessageEnd
TextMessageEndArm(v, e) ==
    LET message_id == MessageKey(e.id)
    IN  IF message_id \notin v.active_messages
        THEN Err(v)
        ELSE Ok([v EXCEPT !.active_messages = @ \ {message_id}])

\* match arm Event::ToolCallStart
ToolCallStartArm(v, e) ==
    IF e.id \in v.active_tool_calls
    THEN Err(v)
    ELSE Ok([v EXCEPT !.active_tool_calls = @ \cup {e.id}])

\* match arm Event::ToolCallArgs
ToolCallArgsArm(v, e) ==
    IF e.id \notin v.active_tool_calls THEN Err(v) ELSE Ok(v)

\* Faulty variant of ToolCallEndArm: the tool call stays in the active set.
ToolCallEndArm_NoRemove(v, e) ==
    IF e.id \notin v.active_tool_calls THEN Err(v) ELSE Ok(v)

\* match arm Event::ToolCallEnd
ToolCallEndArm(v, e) ==
    IF e.id \notin v.active_tool_calls
    THEN Err(v)
    ELSE Ok([v EXCEPT !.active_tool_calls = @ \ {e.id}])

\* Faulty variant of StepStartedArm: a duplicate step name is accepted.
StepStartedArm_NoDuplicateCheck(v, e) ==
    Ok([v EXCEPT !.active_steps = @ \cup {e.id}])

\* match arm Event::StepStarted
StepStartedArm(v, e) ==
    IF e.id \in v.active_steps
    THEN Err(v)
    ELSE Ok([v EXCEPT !.active_steps = @ \cup {e.id}])

\* match arm Event::StepFinished
StepFinishedArm(v, e) ==
    IF e.id \notin v.active_steps
    THEN Err(v)
    ELSE Ok([v EXCEPT !.active_steps = @ \ {e.id}])

\* match arm Event::RunStarted
RunStartedArm(v, e) == Ok([v EXCEPT !.run_started = TRUE])

\* Faulty variant of RunFinishedArm: open tool calls are not checked.
RunFinishedArm_IgnoresToolCalls(v, e) ==
    IF v.active_steps # {} THEN Err(v)
    ELSE IF v.active_messages # {} THEN Err(v)
    ELSE Ok([v EXCEPT !.run_finished = TRUE])

\* match arm Event::RunFinished
RunFinishedArm(v, e) ==
    IF v.active_steps # {} THEN Err(v)
    ELSE IF v.active_messages # {} THEN Err(v)
    ELSE IF v.active_tool_calls # {} THEN Err(v)
    ELSE Ok([v EXCEPT !.run_finished = TRUE])

\* match arm Event::RunError
RunErrorArm(v, e) == Ok([v EXCEPT !.run_error = TRUE])

\* match arm Event::ThinkingStart
ThinkingStartArm(v, e) ==
    IF v.active_thinking THEN Err(v) ELSE Ok([v EXCEPT !.active_thinking = TRUE])

\* match arm Event::ThinkingEnd
ThinkingEndArm(v, e) ==
    IF ~v.active_thinking THEN Err(v) ELSE Ok([v EXCEPT !.active_thinking = FALSE])

\* match arm Event::ThinkingTextMessageStart
ThinkingTextMessageStartArm(v, e) ==
    IF ~v.active_thinking THEN Err(v)
    ELSE IF v.active_thinking_message THEN Err(v)
    ELSE Ok([v EXCEPT !.active_thinking_message = TRUE])

\* match arm Event::ThinkingTextMessageContent
ThinkingTextMessageContentArm(v, e) ==
    IF ~v.active_thinking_message THEN Err(v) ELSE Ok(v)

\* match arm Event::ThinkingTextMessageEnd
ThinkingTextMessageEndArm(v, e) ==
    IF ~v.active_thinking_message
    THEN Err(v)
    ELSE Ok([v EXCEPT !.active_thinking_message = FALSE])

\* Faulty variant of OtherEventArm: the event closes the open text messages.
OtherEventArm_ClosesMessages(v, e) == Ok([v EXCEPT !.active_messages = {}])

\* match arm "All other events are valid"
OtherEventArm(v, e) == Ok(v)

\* verify, "Validate event based on type and current state": the match.
MatchEvent(v, e) ==
    CASE e.type = "TEXT_MESSAGE_START" -> TextMessageStartArm(v, e)
      [] e.type = "TEXT_MESSAGE_CONTENT" -> TextMessageContentArm(v, e)
      [] e.type = "TEXT_MESSAGE_END" -> TextMessageEndArm(v, e)
      [] e.type = "TOOL_CALL_START" -> ToolCallStartArm(v, e)
      [] e.type = "TOOL_CALL_ARGS" -> ToolCallArgsArm(v, e)
      [] e.type = "TOOL_CALL_END" -> ToolCallEndArm(v, e)
      [] e.type = "STEP_STARTED" -> StepStartedArm(v, e)
      [] e.type = "STEP_FINISHED" -> StepFinishedArm(v, e)
      [] e.type = "RUN_STARTED" -> RunStartedArm(v, e)
      [] e.type = "RUN_FINISHED" -> RunFinishedArm(v, e)
      [] e.type = "RUN_ERROR" -> RunErrorArm(v, e)
      [] e.type = "THINKING_START" -> ThinkingStartArm(v, e)
      [] e.type = "THINKING_END" -> ThinkingEndArm(v, e)
      [] e.type = "THINKING_TEXT_MESSAGE_START" -> ThinkingTextMessageStartArm(v, e)
      [] e.type = "THINKING_TEXT_MESSAGE_CONTENT" -> ThinkingTextMessageContentArm(v, e)
      [] e.type = "THINKING_TEXT_MESSAGE_END" -> ThinkingTextMessageEndArm(v, e)
      [] e.type \in OtherTypes -> OtherEventArm(v, e)

\* EventVerifier::verify: the verdict and the verifier after the call.
verify(v, e) ==
    IF RunErrorCheck(v, e) THEN Err(v)
    ELSE IF RunFinishedCheck(v, e) THEN Err(v)
    ELSE LET first == FirstEventCheck(v, e)
         IN  IF ~first.ok THEN first ELSE MatchEvent(first.v, e)

-----------------------------------------------------------------------------
(* The call history the protocol rules are stated over.                    *)

\* Identity of the message id an event carries: MessageId's PartialEq
\* compares the internal UUIDs.
MessageIdOf(s) == MessageIdNew(s).uuid

\* The grammar of legal transcripts,
\*   RUN_STARTED, (balanced message / tool / step / thinking sub-flows)*, RUN_FINISHED
\* phase "start": nothing sent; "body": inside the run; "done": RUN_FINISHED
\* sent; "off": the history is not a prefix of a legal transcript.
TranscriptStart ==
    [phase |-> "start", msgs |-> {}, tools |-> {}, steps |-> {}, think |-> "none"]

TranscriptOff ==
    [phase |-> "off", msgs |-> {}, tools |-> {}, steps |-> {}, think |-> "none"]

TranscriptNext(t, e) ==
    IF t.phase = "start"
    THEN IF e.type = "RUN_STARTED" THEN [t EXCEPT !.phase = "body"] ELSE TranscriptOff
    ELSE IF t.phase # "body" THEN TranscriptOff
    ELSE CASE e.type = "TEXT_MESSAGE_START" /\ MessageIdOf(e.id) \notin t.msgs ->
                [t EXCEPT !.msgs = @ \cup {MessageIdOf(e.id)}]
           [] e.type = "TEXT_MESSAGE_CONTENT" /\ MessageIdOf(e.id) \in t.msgs -> t
           [] e.type = "TEXT_MESSAGE_END" /\ MessageIdOf(e.id) \in t.msgs ->
                [t EXCEPT !.msgs = @ \ {MessageIdOf(e.id)}]
           [] e.type = "TOOL_CALL_START" /\ e.id \notin t.tools ->
                [t EXCEPT !.tools = @ \cup {e.id}]
           [] e.type = "TOOL_CALL_ARGS" /\ e.id \in t.tools -> t
           [] e.type = "TOOL_CALL_END" /\ e.id \in t.tools ->
                [t EXCEPT !.tools = @ \ {e.id}]
           [] e.type = "STEP_STARTED" /\ e.id \notin t.steps ->
                [t EXCEPT !.steps = @ \cup {e.id}]
           [] e.type = "STEP_FINISHED" /\ e.id \in t.steps ->
                [t EXCEPT !.steps = @ \ {e.id}]
           [] e.type = "THINKING_START" /\ t.think = "none" -> [t EXCEPT !.think = "step"]
           [] e.type = "THINKING_TEXT_MESSAGE_START" /\ t.think = "step" ->
                [t EXCEPT !.think = "message"]
           [] e.type = "THINKING_TEXT_MESSAGE_CONTENT" /\ t.think = "message" -> t
           [] e.type = "THINKING_TEXT_MESSAGE_END" /\ t.think = "message" ->
                [t EXCEPT !.think = "step"]
           [] e.type = "THINKING_END" /\ t.think = "step" -> [t EXCEPT !.think = "none"]
           [] e.type = "RUN_FINISHED" /\ t.msgs = {} /\ t.tools = {} /\ t.steps = {}
                /\ t.think = "none" -> [t EXCEPT !.phase = "done"]
           [] OTHER -> TranscriptOff

\* The history after a verify call on event e that returned r.
Record(e, r) ==
    /\ lastEvent' = e
    /\ lastOk' = r.ok
    /\ calls' = IF calls = "none" THEN "one" ELSE "many"
    /\ runActive' = IF r.ok /\ e.type = "RUN_STARTED" THEN TRUE
                    ELSE IF r.ok /\ e.type \in {"RUN_FINISHED", "RUN_ERROR"} THEN FALSE
                    ELSE runActive
    /\ errorAccepted' = (errorAccepted \/ (r.ok /\ e.type = "RUN_ERROR"))
    /\ finishedOpen' = IF r.ok /\ e.type = "RUN_FINISHED" THEN TRUE
                       ELSE IF r.ok /\ e.type = "RUN_STARTED" THEN FALSE
                       ELSE finishedOpen
    /\ errorSinceFinished' = IF r.ok /\ e.type \in {"RUN_FINISHED", "RUN_STARTED"} THEN FALSE
                             ELSE IF r.ok /\ e.type = "RUN_ERROR" /\ finishedOpen THEN TRUE
                             ELSE errorSinceFinished
    /\ thinkingOpen' = IF r.ok /\ e.type = "THINKING_START" THEN TRUE
                       ELSE IF r.ok /\ e.type = "THINKING_END" THEN FALSE
                       ELSE thinkingOpen
    /\ transcript' = TranscriptNext(transcript, e)

-----------------------------------------------------------------------------
(* Values of the run engine (ag-ui-client/src/event_handler.rs, agent.rs). *)

\* Option<T>: None, or Some(x).
None == <<>>
Some(x) == <<x>>

\* JsonValue::Null, and the other result a RUN_FINISHED event carries here.
Null == "null"
Results == {"done"}

\* A string is the sequence of the deltas it was built from.
EmptyString == <<>>
Deltas == {<<"a">>, <<"b">>}

\* The state is kept as the JSON object it serializes to: a function from
\* its keys to their values.
StateKeys == {"count", "note"}
InitialState == [count |-> 0]
NotedState == [count |-> 0, note |-> 0]

\* AgentStateMutation::default().
NewMutation == [messages |-> None, state |-> None, stop_propagation |-> FALSE]

\* No handle_event call made yet.
NoOutcome ==
    [kind |-> "none", exit |-> "none", mutation |-> NewMutation, trace |-> <<>>,
     event |-> NoEvent, before |-> [messages |-> <<>>, state |-> <<>>, result |-> Null]]

\* The message ids the events carry, as MessageId values.
MessageIds == {MessageIdOf(s) : s \in MessageIdTexts}

\* run_agent not called yet.
NoReturn == [kind |-> "none", result |-> Null, new_messages |-> <<>>]

NoRun ==
    [pc |-> "idle", current_message_ids |-> {}, result_val |-> Null,
     hooks |-> <<>>, returned |-> NoReturn]

\* FilterToolCallsMiddleware::new(FilterConfig::allow([])), no stream
\* transformed yet.
StreamNames == {"A", "B"}

Allow(tools) == [kind |-> "Allow", tools |-> tools]
Block(tools) == [kind |-> "Block", tools |-> tools]

NoFilter ==
    [config |-> Allow({}), blocked_ids |-> {},
     input |-> [s \in StreamNames |-> <<>>],
     output |-> [s \in StreamNames |-> <<>>],
     polled |-> "-", before |-> {}, forwarded |-> FALSE]

\* The threads that hold a clone of the StateManager.
ThreadNames == {"t1", "t2"}

\* A call of a StateManager method: the closure f, the predicate, the new
\* state and the patch it is given are "-", or <<>> for the patch, when the
\* method takes none.
ManagerCall(op, f, predicate, new_state, ops) ==
    [op |-> op, f |-> f, predicate |-> predicate, new_state |-> new_state,
     patch |-> ops]

NoCall == ManagerCall("-", "-", "-", InitialState, <<>>)

\* A thread outside every call.
Idle ==
    [pc |-> "idle", call |-> NoCall, acquired |-> InitialState,
     checked |-> InitialState, started |-> InitialState, before |-> InitialState,
     todo |-> <<>>]

\* StateManager::new(initial), no call made yet.
NoManager ==
    [state |-> InitialState, initial |-> InitialState, writer |-> "-", readers |-> {},
     threads |-> [t \in ThreadNames |-> Idle], log |-> <<>>, seen |-> {}, calls |-> 0]

\* run_agent_handler called, nothing read yet.
NoResponse == [pc |-> "request", status |-> "-", items |-> <<>>, frames |-> <<>>]

\* No ID built yet.
NoIds == <<>>

\* A new middleware and two new verifiers, nothing polled yet.
NoPipeline ==
    [config |-> Allow({}), blocked_ids |-> {}, upstream |-> New, downstream |-> New,
     input |-> <<>>, output |-> <<>>, valid |-> TRUE]

NoDeltas ==
    [created |-> {}, text |-> [m \in MessageIds |-> EmptyString],
     started |-> {}, args |-> [t \in ToolCallIds |-> EmptyString],
     parent |-> [t \in ToolCallIds |-> None], reused |-> {}]

-----------------------------------------------------------------------------
(* The state machine.                                                      *)

\* A new verifier, nothing verified and nothing yielded yet.
VerifierInit ==
    /\ active_messages = New.active_messages
    /\ active_tool_calls = New.active_tool_calls
    /\ active_steps = New.active_steps
    /\ run_started = New.run_started
    /\ run_finished = New.run_finished
    /\ run_error = New.run_error
    /\ first_event_received = New.first_event_received
    /\ active_thinking = New.active_thinking
    /\ active_thinking_message = New.active_thinking_message
    /\ lastEvent = NoEvent
    /\ lastOk = FALSE
    /\ calls = "none"
    /\ runActive = FALSE
    /\ errorAccepted = FALSE
    /\ finishedOpen = FALSE
    /\ errorSinceFinished = FALSE
    /\ thinkingOpen = FALSE
    /\ transcript = TranscriptStart
    /\ yielded = <<>>

\* No run engine takes part: its variables keep these values.
Init ==
    /\ VerifierInit
    /\ messages = <<>>
    /\ state = InitialState
    /\ result = Null
    /\ subscribers = <<>>
    /\ outcome = NoOutcome
    /\ handled = 0
    /\ deltas = NoDeltas
    /\ notified = <<>>
    /\ run = NoRun
    /\ filter = NoFilter
    /\ manager = NoManager
    /\ response = NoResponse
    /\ identifiers = NoIds
    /\ pipeline = NoPipeline

\* One call verifier.verify(&e): the fields are left as the call leaves them,
\* also when it returns an error.
VerifyStep(e) ==
    LET r == verify(Self, e)
    IN  /\ active_messages' = r.v.active_messages
        /\ active_tool_calls' = r.v.active_tool_calls
        /\ active_steps' = r.v.active_steps
        /\ run_started' = r.v.run_started
        /\ run_finished' = r.v.run_finished
        /\ run_error' = r.v.run_error
        /\ first_event_received' = r.v.first_event_received
        /\ active_thinking' = r.v.active_thinking
        /\ active_thinking_message' = r.v.active_thinking_message
        /\ Record(e, r)

\* A direct call of verify: nothing but the verifier takes part.
Call(e) ==
    /\ VerifyStep(e)
    /\ UNCHANGED <<streamVars, engineVars, runVars, filterVars, managerVars, responseVars, idVars, pipelineVars>>

\* The events of each type.
EventsByType == [t \in EventTypes |-> {e \in Events : e.type = t}]

\* One action per event type.
VerifyRunStarted == \E e \in EventsByType["RUN_STARTED"] : Call(e)
VerifyRunFinished == \E e \in EventsByType["RUN_FINISHED"] : Call(e)
VerifyRunError == \E e \in EventsByType["RUN_ERROR"] : Call(e)
VerifyTextMessageStart == \E e \in EventsByType["TEXT_MESSAGE_START"] : Call(e)
VerifyTextMessageContent == \E e \in EventsByType["TEXT_MESSAGE_CONTENT"] : Call(e)
VerifyTextMessageEnd == \E e \in EventsByType["TEXT_MESSAGE_END"] : Call(e)
VerifyToolCallStart == \E e \in EventsByType["TOOL_CALL_START"] : Call(e)
VerifyToolCallArgs == \E e \in EventsByType["TOOL_CALL_ARGS"] : Call(e)
VerifyToolCallEnd == \E e \in EventsByType["TOOL_CALL_END"] : Call(e)
VerifyStepStarted == \E e \in EventsByType["STEP_STARTED"] : Call(e)
VerifyStepFinished == \E e \in EventsByType["STEP_FINISHED"] : Call(e)
VerifyThinkingStart == \E e \in EventsByType["THINKING_START"] : Call(e)
VerifyThinkingEnd == \E e \in EventsByType["THINKING_END"] : Call(e)
VerifyThinkingTextMessageStart == \E e \in EventsByType["THINKING_TEXT_MESSAGE_START"] : Call(e)
VerifyThinkingTextMessageContent == \E e \in EventsByType["THINKING_TEXT_MESSAGE_CONTENT"] : Call(e)
VerifyThinkingTextMessageEnd == \E e \in EventsByType["THINKING_TEXT_MESSAGE_END"] : Call(e)
VerifyOther == \E t \in OtherTypes : \E e \in EventsByType[t] : Call(e)

Next ==
    \/ VerifyRunStarted
    \/ VerifyRunFinished
    \/ VerifyRunError
    \/ VerifyTextMessageStart
    \/ VerifyTextMessageContent
    \/ VerifyTextMessageEnd
    \/ VerifyToolCallStart
    \/ VerifyToolCallArgs
    \/ VerifyToolCallEnd
    \/ VerifyStepStarted
    \/ VerifyStepFinished
    \/ VerifyThinkingStart
    \/ VerifyThinkingEnd
    \/ VerifyThinkingTextMessageStart
    \/ VerifyThinkingTextMessageContent
    \/ VerifyThinkingTextMessageEnd
    \/ VerifyOther

Spec == Init /\ [][Next]_vars

TypeOK ==
    /\ active_messages \subseteq MessageKeys
    /\ active_tool_calls \subseteq ToolCallIds
    /\ active_steps \subseteq StepNames
    /\ {run_started, run_finished, run_error, first_event_received,
        active_thinking, active_thinking_message, lastOk} \subseteq BOOLEAN
    /\ lastEvent \in Events \cup {NoEvent}

-----------------------------------------------------------------------------
(* Properties of EventVerifier::verify.                                    *)

\* The message ids held by a set of active-message keys.
HeldIds(keys) == {MessageIdOf(k) : k \in keys}

\* C1: every event of a transcript RUN_STARTED, (balanced message / tool /
\* step / thinking sub-flows, interleaved)*, RUN_FINISHED is accepted by
\* verify: while the call history is a non-empty prefix of such a transcript,
\* the last call returned Ok.
C1_LegalTranscriptAccepted ==
    transcript.phase \in {"body", "done"} => lastOk

\* Two text messages, a tool call, a step and a thinking message are open at
\* once inside a legal transcript.
C1_Witness ==
    /\ transcript.phase = "body"
    /\ Cardinality(transcript.msgs) = 2
    /\ transcript.tools # {}
    /\ transcript.steps # {}
    /\ transcript.think = "message"
    /\ lastEvent.type = "TEXT_MESSAGE_START"
    /\ lastOk

\* C2: the first verify call on a new verifier succeeds iff its event is
\* RUN_STARTED or RUN_ERROR.
C2_FirstEventRule ==
    calls = "one" => (lastOk <=> lastEvent.type \in {"RUN_STARTED", "RUN_ERROR"})

\* A first call with another event type, rejected.
C2_Witness ==
    calls = "one" /\ lastEvent.type = "TEXT_MESSAGE_START" /\ ~lastOk

\* C3: once a RUN_ERROR has been accepted, every later verify call returns
\* an error, whatever its event.
C3_NothingAfterRunError ==
    [][errorAccepted => ~lastOk']_vars

\* A RUN_STARTED submitted after an accepted RUN_ERROR, rejected.
C3_Witness ==
    errorAccepted /\ lastEvent.type = "RUN_STARTED" /\ ~lastOk

\* C4 as claimed: from an accepted RUN_FINISHED until the next accepted
\* RUN_STARTED, a call is accepted iff its event is RUN_STARTED or RUN_ERROR.
C4_AfterRunFinished_AsClaimed ==
    [][finishedOpen =>
        (lastOk' <=> lastEvent'.type \in {"RUN_STARTED", "RUN_ERROR"})]_vars

\* C4 as amended: from an accepted RUN_FINISHED until the next accepted
\* RUN_STARTED or RUN_ERROR, a call is accepted iff its event is RUN_STARTED
\* or RUN_ERROR.
C4_AfterRunFinished ==
    [][finishedOpen /\ ~errorSinceFinished =>
        (lastOk' <=> lastEvent'.type \in {"RUN_STARTED", "RUN_ERROR"})]_vars

\* A STATE_SNAPSHOT submitted after RUN_FINISHED, rejected.
C4_Witness ==
    /\ finishedOpen
    /\ ~errorSinceFinished
    /\ lastEvent.type = "STATE_SNAPSHOT"
    /\ ~lastOk

\* C5: RUN_STARTED is rejected while a run is active; a RUN_STARTED accepted
\* after RUN_FINISHED leaves the three active sets empty, both thinking flags
\* and run_finished false and run_started true.
C5_RunStartedRule ==
    [][lastEvent'.type = "RUN_STARTED" =>
        /\ runActive => ~lastOk'
        /\ finishedOpen /\ lastOk' =>
            /\ active_messages' = {}
            /\ active_tool_calls' = {}
            /\ active_steps' = {}
            /\ ~active_thinking'
            /\ ~active_thinking_message'
            /\ ~run_finished'
            /\ run_started']_vars

\* A RUN_STARTED accepted after a run that finished with its thinking step
\* still open: the thinking flag is cleared although no THINKING_END came.
C5_Witness ==
    /\ lastEvent.type = "RUN_STARTED"
    /\ lastOk
    /\ thinkingOpen
    /\ ~active_thinking
    /\ ~run_finished
    /\ run_started

\* C6: during an active run TEXT_MESSAGE_START{id} is rejected iff id is
\* active and otherwise adds it; TEXT_MESSAGE_CONTENT{id} and
\* TEXT_MESSAGE_END{id} are rejected iff id is not active; an accepted END
\* removes id, an accepted CONTENT changes nothing.
C6_TextMessageRules ==
    [][runActive /\ lastEvent'.type \in TextTypes =>
        LET id == MessageIdOf(lastEvent'.id)
            held == HeldIds(active_messages)
        IN  CASE lastEvent'.type = "TEXT_MESSAGE_START" ->
                    /\ lastOk' <=> id \notin held
                    /\ lastOk' => HeldIds(active_messages') = held \cup {id}
                    /\ ~lastOk' => active_messages' = active_messages
              [] lastEvent'.type = "TEXT_MESSAGE_CONTENT" ->
                    /\ lastOk' <=> id \in held
                    /\ active_messages' = active_messages
              [] lastEvent'.type = "TEXT_MESSAGE_END" ->
                    /\ lastOk' <=> id \in held
                    /\ lastOk' => HeldIds(active_messages') = held \ {id}
                    /\ ~lastOk' => active_messages' = active_messages]_vars

\* A TEXT_MESSAGE_END accepted during a run while another message stays open.
C6_Witness ==
    /\ runActive
    /\ lastEvent.type = "TEXT_MESSAGE_END"
    /\ lastOk
    /\ active_messages # {}

\* C7: during an active run TOOL_CALL_START{id} is rejected iff id is active
\* and otherwise adds it; TOOL_CALL_ARGS{id} and TOOL_CALL_END{id} are
\* rejected iff id is not active; an accepted END removes id, after which
\* TOOL_CALL_START{id} is accepted again.
C7_ToolCallRules ==
    [][runActive /\ lastEvent'.type \in ToolTypes =>
        LET id == lastEvent'.id
        IN  CASE lastEvent'.type = "TOOL_CALL_START" ->
                    /\ lastOk' <=> id \notin active_tool_calls
                    /\ lastOk' => active_tool_calls' = active_tool_calls \cup {id}
                    /\ ~lastOk' => active_tool_calls' = active_tool_calls
              [] lastEvent'.type = "TOOL_CALL_ARGS" ->
                    /\ lastOk' <=> id \in active_tool_calls
                    /\ active_tool_calls' = active_tool_calls
              [] lastEvent'.type = "TOOL_CALL_END" ->
                    /\ lastOk' <=> id \in active_tool_calls
                    /\ lastOk' => active_tool_calls' = active_tool_calls \ {id}
                    /\ lastOk' => verify(Self', Ev("TOOL_CALL_START", id)).ok
                    /\ ~lastOk' => active_tool_calls' = active_tool_calls]_vars

\* A TOOL_CALL_END accepted during a run while the other tool call stays open.
C7_Witness ==
    /\ runActive
    /\ lastEvent.type = "TOOL_CALL_END"
    /\ lastOk
    /\ active_tool_calls # {}

\* C8: during an active run STEP_STARTED{name} is rejected iff name is active
\* and otherwise adds it; STEP_FINISHED{name} is rejected iff name is not
\* active and otherwise removes it.
C8_StepRules ==
    [][runActive /\ lastEvent'.type \in StepTypes =>
        LET name == lastEvent'.id
        IN  CASE lastEvent'.type = "STEP_STARTED" ->
                    /\ lastOk' <=> name \notin active_steps
                    /\ lastOk' => active_steps' = active_steps \cup {name}
                    /\ ~lastOk' => active_steps' = active_steps
              [] lastEvent'.type = "STEP_FINISHED" ->
                    /\ lastOk' <=> name \in active_steps
                    /\ lastOk' => active_steps' = active_steps \ {name}
                    /\ ~lastOk' => active_steps' = active_steps]_vars

\* A duplicate STEP_STARTED rejected during a run.
C8_Witness ==
    /\ runActive
    /\ lastEvent.type = "STEP_STARTED"
    /\ ~lastOk
    /\ lastEvent.id \in active_steps

\* C9 as claimed: a THINKING_TEXT_MESSAGE_START / CONTENT / END is accepted
\* only while a thinking step is open (THINKING_START accepted, no
\* THINKING_END accepted since), and a START only when no thinking message is
\* active.
C9_ThinkingMessageRules ==
    [][lastOk' /\ lastEvent'.type \in ThinkingMessageTypes =>
        /\ thinkingOpen
        /\ lastEvent'.type = "THINKING_TEXT_MESSAGE_START" => ~active_thinking_message]_vars

\* C10: RUN_FINISHED is rejected whenever a message, tool call or step is
\* active, and the rejected call sets nothing: run_finished and the active
\* sets are unchanged, an active run stays active and each open sub-flow can
\* still be closed.
C10_RunFinishedRule ==
    [][lastEvent'.type = "RUN_FINISHED"
         /\ (active_messages # {} \/ active_tool_calls # {} \/ active_steps # {}) =>
        /\ ~lastOk'
        /\ run_finished' = run_finished
        /\ runActive' = runActive
        /\ active_messages' = active_messages
        /\ active_tool_calls' = active_tool_calls
        /\ active_steps' = active_steps
        /\ runActive =>
            /\ \A k \in active_messages' : verify(Self', Ev("TEXT_MESSAGE_END", k)).ok
            /\ \A k \in active_tool_calls' : verify(Self', Ev("TOOL_CALL_END", k)).ok
            /\ \A k \in active_steps' : verify(Self', Ev("STEP_FINISHED", k)).ok]_vars

\* A RUN_FINISHED rejected during a run only because a tool call is open.
C10_Witness ==
    /\ runActive
    /\ lastEvent.type = "RUN_FINISHED"
    /\ ~lastOk
    /\ ~run_finished
    /\ active_tool_calls # {}
    /\ active_messages = {}
    /\ active_steps = {}

-----------------------------------------------------------------------------
(* EventVerifier::verify_stream: the verifier moved into a closure that is  *)
(* mapped over the inner stream.                                            *)

\* Items polled from the stream in one behaviour.
MaxYielded == 3

\* Items of the inner stream.
InnerOk(e) == [ok |-> TRUE, event |-> e]
InnerErr == [ok |-> FALSE, event |-> NoEvent]

\* The closure given to stream.map: an event is verified and passed on as Ok,
\* or its verification error is yielded; an error item is passed on.  The
\* closure is all the wrapper does: map ends only when the inner stream ends.
verify_stream(v, item) ==
    IF item.ok
    THEN LET r == verify(v, item.event)
         IN  [v |-> r.v, out |-> IF r.ok THEN "Ok" ELSE "VerificationError"]
    ELSE [v |-> v, out |-> "TransportError"]

\* The consumer polls the stream and the inner stream has the event e next.
PollEvent(e) ==
    /\ Len(yielded) < MaxYielded
    /\ VerifyStep(e)
    /\ yielded' = Append(yielded, verify_stream(Self, InnerOk(e)).out)
    /\ UNCHANGED <<engineVars, runVars, filterVars, managerVars, responseVars, idVars, pipelineVars>>

\* The consumer polls the stream and the inner stream has an error next.
PollError ==
    /\ Len(yielded) < MaxYielded
    /\ yielded' = Append(yielded, verify_stream(Self, InnerErr).out)
    /\ UNCHANGED <<verifierVars, historyVars, engineVars, runVars, filterVars, managerVars, responseVars, idVars, pipelineVars>>

NextStream ==
    \/ \E e \in Events : PollEvent(e)
    \/ PollError

SpecStream == Init /\ [][NextStream]_vars

\* C11: the stream of verify_stream ends at the first verification failure:
\* an item that is the error of a rejected event is the last item yielded.
C11_TerminatesOnFirstFailure ==
    \A i \in 1..Len(yielded) : yielded[i] = "VerificationError" => i = Len(yielded)

-----------------------------------------------------------------------------
(* Messages and events of the run engine.                                  *)

\* Message::Assistant { id, content, tool_calls }: content and tool_calls are
\* Options.
Assistant(id, content, tool_calls) ==
    [role |-> "assistant", id |-> id, content |-> content, tool_calls |-> tool_calls]

\* Message::User { id, content }: content is a String, there are no tool calls.
User(id, content) ==
    [role |-> "user", id |-> id, content |-> Some(content), tool_calls |-> None]

\* ToolCall { id, call_type: "function", function: FunctionCall { name, arguments } }.
ToolCall(id, name, arguments) ==
    [id |-> id, function |-> [name |-> name, arguments |-> arguments]]

\* Message::content_mut: the message after the call (an Assistant without
\* content gets the empty string); the reference it returns is always Some.
content_mut(m) ==
    IF m.role = "assistant" /\ m.content = None
    THEN [m EXCEPT !.content = Some(EmptyString)]
    ELSE m

\* Message::tool_calls_mut: the message after the call (an Assistant without
\* tool calls gets the empty list); the reference it returns is Some exactly
\* for an Assistant.
tool_calls_mut(m) ==
    IF m.role = "assistant" /\ m.tool_calls = None
    THEN [m EXCEPT !.tool_calls = Some(<<>>)]
    ELSE m

\* MessageId::random(): a UUID no message carries yet.
RandomUuid == "7c9e6679-7425-40de-944b-e07fc1f90ae7"

\* The id of the message the run starts with.
UserText == "user-1"

\* Events with their payload; events without one are built with Ev.
TextMessageContent(i, d) == [type |-> "TEXT_MESSAGE_CONTENT", id |-> i, delta |-> d]
ToolCallStart(i, n, p) == [type |-> "TOOL_CALL_START", id |-> i, name |-> n, parent |-> p]
ToolCallArgs(i, d) == [type |-> "TOOL_CALL_ARGS", id |-> i, delta |-> d]
StateSnapshot(snapshot) == [type |-> "STATE_SNAPSHOT", id |-> NoId, snapshot |-> snapshot]
StateDelta(d) == [type |-> "STATE_DELTA", id |-> NoId, delta |-> d]
RunFinished(r) == [type |-> "RUN_FINISHED", id |-> NoId, result |-> r]

\* The message ids and names the engine's events carry.
EngineMessageTexts == {"msg-1", CanonicalUuidText}
ToolCallNames == {"get_temp"}
ParentMessageIds == {None} \cup {Some(i) : i \in EngineMessageTexts}

\* The events of each type the engine is given.
RunStartedEvents == {Ev("RUN_STARTED", NoId)}
RunFinishedEvents == {RunFinished(r) : r \in {None} \cup {Some(x) : x \in Results}}
TextMessageStartEvents == {Ev("TEXT_MESSAGE_START", i) : i \in EngineMessageTexts}
TextMessageContentEvents ==
    {TextMessageContent(i, d) : i \in EngineMessageTexts, d \in Deltas}
TextMessageEndEvents == {Ev("TEXT_MESSAGE_END", i) : i \in EngineMessageTexts}
ToolCallStartEvents ==
    {ToolCallStart(i, n, p) : i \in ToolCallIds, n \in ToolCallNames,
                              p \in ParentMessageIds}
ToolCallArgsEvents == {ToolCallArgs(i, d) : i \in ToolCallIds, d \in Deltas}
ToolCallEndEvents == {Ev("TOOL_CALL_END", i) : i \in ToolCallIds}
StateSnapshotEvents == {StateSnapshot(NotedState)}
MessagesSnapshotEvents == {Ev("MESSAGES_SNAPSHOT", NoId)}

-----------------------------------------------------------------------------
(* JSON Patch (RFC 6902) on the state object, as json_patch::patch applies *)
(* it, and the serde conversions around it.                                *)

PatchOp(op, key, value) == [op |-> op, path |-> key, value |-> value]

\* serde_json::from_value::<Vec<PatchOperation>>: every operation must name
\* a known op.
ParsePatches(delta) ==
    \A i \in 1..Len(delta) : delta[i].op \in {"add", "remove", "replace", "test"}

Put(doc, key, value) ==
    [k \in DOMAIN doc \cup {key} |-> IF k = key THEN value ELSE doc[k]]

Drop(doc, key) == [k \in DOMAIN doc \ {key} |-> doc[k]]

\* One operation on the document: add sets the member, remove and replace
\* need it to exist, test needs it to exist with the given value.
ApplyOp(doc, op) ==
    CASE op.op = "add" -> [ok |-> TRUE, doc |-> Put(doc, op.path, op.value)]
      [] op.op = "remove" ->
            IF op.path \in DOMAIN doc
            THEN [ok |-> TRUE, doc |-> Drop(doc, op.path)]
            ELSE [ok |-> FALSE, doc |-> doc]
      [] op.op = "replace" ->
            IF op.path \in DOMAIN doc
            THEN [ok |-> TRUE, doc |-> Put(doc, op.path, op.value)]
            ELSE [ok |-> FALSE, doc |-> doc]
      [] OTHER ->
            [ok |-> op.path \in DOMAIN doc /\ doc[op.path] = op.value, doc |-> doc]

\* json_patch::patch: the operations in order, stopping at the first that
\* fails; doc is then the document as the operations before it left it.
RECURSIVE patch(_, _)
patch(doc, ops) ==
    IF ops = <<>>
    THEN [ok |-> TRUE, doc |-> doc]
    ELSE LET r == ApplyOp(doc, Head(ops))
         IN  IF r.ok THEN patch(r.doc, Tail(ops)) ELSE r

\* serde_json::from_value::<StateT>: the state type has the required member
\* count.
Deserializes(doc) == "count" \in DOMAIN doc

-----------------------------------------------------------------------------
(* EventHandler (event_handler.rs).                                        *)

\* The handler as the fields hold it.
Handler ==
    [messages |-> messages, state |-> state, result |-> result,
     subscribers |-> subscribers]

\* What a subscriber hook returns: Ok(mutation) or Err.
HookOk(m) == [kind |-> "ok", mutation |-> m]
HookErr == [kind |-> "err", mutation |-> NewMutation]

update_from_mutation_StateOnly(h, m) ==
    [h EXCEPT !.state = IF m.state # None THEN m.state[1] ELSE @]

\* EventHandler::update_from_mutation.
update_from_mutation(h, m) ==
    [h EXCEPT !.messages = IF m.messages # None THEN m.messages[1] ELSE @,
              !.state = IF m.state # None THEN m.state[1] ELSE @]

\* EventHandler::process_mutation: the handler and current_mutation after it.
process_mutation(h, m, cur) ==
    IF m.messages # None \/ m.state # None
    THEN [h |-> update_from_mutation(h, m),
          cur |-> [cur EXCEPT !.messages = IF m.messages # None THEN m.messages ELSE @,
                              !.state = IF m.state # None THEN m.state ELSE @]]
    ELSE [h |-> h, cur |-> cur]

Stops_Never(m) == FALSE

\* The test `mutation.stop_propagation` of the hook loops.
Stops(m) == m.stop_propagation

\* One loop over the subscribers, from subscriber i on, calling the hook
\* named hook ("on_event", or "on_variant_event" for the hook of the event's
\* variant).  kind is "next" when the loop ran to its end, "stop" when a
\* mutation with stop_propagation returned from handle_event, "err" when a
\* hook's error did.  trace lists the hooks invoked.
RECURSIVE HookLoop(_, _, _, _, _)
HookLoop(hook, i, h, cur, trace) ==
    IF i > Len(h.subscribers)
    THEN [kind |-> "next", h |-> h, cur |-> cur, trace |-> trace]
    ELSE LET r == h.subscribers[i][hook]
             t == Append(trace, [hook |-> hook, subscriber |-> i])
         IN  IF r.kind = "err"
             THEN [kind |-> "err", h |-> h, cur |-> NewMutation, trace |-> t]
             ELSE IF ~Stops(r.mutation)
             THEN LET p == process_mutation(h, r.mutation, cur)
                  IN  HookLoop(hook, i + 1, p.h, p.cur, t)
             ELSE [kind |-> "stop", h |-> update_from_mutation(h, r.mutation),
                   cur |-> r.mutation, trace |-> t]

\* The default behaviour of each match arm: ok, the handler and
\* current_mutation after it.
Done(h, cur) == [ok |-> TRUE, h |-> h, cur |-> cur]
Failed(h, cur) == [ok |-> FALSE, h |-> h, cur |-> cur]

SetLast(msgs, m) == [msgs EXCEPT ![Len(msgs)] = m]

WithMessages(h, cur, msgs) ==
    Done([h EXCEPT !.messages = msgs], [cur EXCEPT !.messages = Some(msgs)])

TextMessageStartDefault_Prepend(h, cur, e) ==
    WithMessages(h, cur,
                 <<Assistant(MessageIdOf(e.id), Some(EmptyString), None)>> \o h.messages)

\* Event::TextMessageStart.
TextMessageStartDefault(h, cur, e) ==
    WithMessages(h, cur,
                 Append(h.messages, Assistant(MessageIdOf(e.id), Some(EmptyString), None)))

\* Event::TextMessageContent.
TextMessageContentDefault(h, cur, e) ==
    IF h.messages # <<>>
    THEN LET last == content_mut(h.messages[Len(h.messages)])
         IN  WithMessages(h, cur,
                          SetLast(h.messages,
                                  [last EXCEPT !.content = Some(@[1] \o e.delta)]))
    ELSE Done(h, cur)

\* Event::ToolCallStart.
ToolCallStartDefault(h, cur, e) ==
    LET new_tool_call == ToolCall(e.id, e.name, EmptyString)
    IN  IF h.messages # <<>>
        THEN LET last_message == h.messages[Len(h.messages)]
             IN  IF e.parent # None /\ last_message.id = MessageIdOf(e.parent[1])
                 THEN LET last == tool_calls_mut(last_message)
                      IN  IF last.tool_calls # None
                          THEN WithMessages(h, cur,
                                   SetLast(h.messages,
                                       [last EXCEPT !.tool_calls =
                                            Some(Append(@[1], new_tool_call))]))
                          ELSE WithMessages(h, cur, h.messages)
                 ELSE WithMessages(h, cur, h.messages)
        ELSE WithMessages(h, cur,
                 Append(h.messages,
                        Assistant(IF e.parent # None THEN MessageIdOf(e.parent[1])
                                  ELSE RandomUuid,
                                  None, None)))

\* Event::ToolCallArgs.
ToolCallArgsDefault(h, cur, e) ==
    IF h.messages # <<>>
    THEN LET last == tool_calls_mut(h.messages[Len(h.messages)])
             kept == [h EXCEPT !.messages = SetLast(h.messages, last)]
         IN  IF last.tool_calls # None /\ last.tool_calls[1] # <<>>
             THEN LET tool_calls == last.tool_calls[1]
                      n == Len(tool_calls)
                  IN  WithMessages(h, cur,
                          SetLast(h.messages,
                              [last EXCEPT !.tool_calls =
                                   Some([tool_calls EXCEPT ![n].function.arguments =
                                             @ \o e.delta])]))
             ELSE Done(kept, cur)
    ELSE Done(h, cur)

\* Event::StateSnapshot.
StateSnapshotDefault(h, cur, e) ==
    Done([h EXCEPT !.state = e.snapshot], [cur EXCEPT !.state = Some(e.snapshot)])

StateDeltaDefault_KeepsPartial(h, cur, e) ==
    IF ~ParsePatches(e.delta)
    THEN Failed(h, cur)
    ELSE LET patched == patch(h.state, e.delta)
         IN  IF ~patched.ok \/ ~Deserializes(patched.doc)
             THEN Failed([h EXCEPT !.state = patched.doc], cur)
             ELSE Done([h EXCEPT !.state = patched.doc],
                       [cur EXCEPT !.state = Some(patched.doc)])

\* Event::StateDelta: the patch is applied to a serialized copy of the state;
\* the state is assigned only when the patch applied and the result
\* deserialized.
StateDeltaDefault(h, cur, e) ==
    IF ~ParsePatches(e.delta)
    THEN Failed(h, cur)
    ELSE LET patched == patch(h.state, e.delta)
         IN  IF ~patched.ok \/ ~Deserializes(patched.doc)
             THEN Failed(h, cur)
             ELSE Done([h EXCEPT !.state = patched.doc],
                       [cur EXCEPT !.state = Some(patched.doc)])

\* Event::RunFinished.
RunFinishedDefault(h, cur, e) ==
    Done([h EXCEPT !.result = IF e.result # None THEN e.result[1] ELSE Null], cur)

\* The arms without a default behaviour call their hooks only.
DefaultBehavior(h, cur, e) ==
    CASE e.type = "TEXT_MESSAGE_START" -> TextMessageStartDefault(h, cur, e)
      [] e.type = "TEXT_MESSAGE_CONTENT" -> TextMessageContentDefault(h, cur, e)
      [] e.type = "TOOL_CALL_START" -> ToolCallStartDefault(h, cur, e)
      [] e.type = "TOOL_CALL_ARGS" -> ToolCallArgsDefault(h, cur, e)
      [] e.type = "STATE_SNAPSHOT" -> StateSnapshotDefault(h, cur, e)
      [] e.type = "STATE_DELTA" -> StateDeltaDefault(h, cur, e)
      [] e.type = "RUN_FINISHED" -> RunFinishedDefault(h, cur, e)
      [] OTHER -> Done(h, cur)

\* EventHandler::handle_event.  kind is "ok" with the mutation returned, or
\* "err"; exit names the place it returned from; h is the handler after it.
Returned(kind, exit, h, mutation, trace) ==
    [kind |-> kind, exit |-> exit, h |-> h, mutation |-> mutation, trace |-> trace]

handle_event(h, e) ==
    LET first == HookLoop("on_event", 1, h, NewMutation, <<>>)
    IN  IF first.kind = "err"
        THEN Returned("err", "on_event", first.h, NewMutation, first.trace)
        ELSE IF first.kind = "stop"
        THEN Returned("ok", "on_event", first.h, first.cur, first.trace)
        ELSE LET arm == DefaultBehavior(first.h, first.cur, e)
             IN  IF ~arm.ok
                 THEN Returned("err", "default", arm.h, NewMutation, first.trace)
                 ELSE LET second == HookLoop("on_variant_event", 1, arm.h, arm.cur,
                                             first.trace)
                      IN  IF second.kind = "err"
                          THEN Returned("err", "on_variant_event", second.h,
                                        NewMutation, second.trace)
                          ELSE IF second.kind = "stop"
                          THEN Returned("ok", "on_variant_event", second.h,
                                        second.cur, second.trace)
                          ELSE Returned("ok", "end", second.h, second.cur,
                                        second.trace)

\* EventHandler::apply_mutation: the assignments (the notifications it sends
\* return nothing).
apply_mutation(h, m) ==
    [h EXCEPT !.messages = IF m.messages # None THEN m.messages[1] ELSE @,
              !.state = IF m.state # None THEN m.state[1] ELSE @]

\* A notification: the hook called, on which subscriber, about which message
\* or tool call ("-" for the hooks that are given none).
Notify(hook, about, subs) ==
    [i \in 1..Len(subs) |-> [hook |-> hook, subscriber |-> i, about |-> about]]

RECURSIVE NotifyToolCalls(_, _)
NotifyToolCalls(tool_calls, subs) ==
    IF tool_calls = <<>>
    THEN <<>>
    ELSE Notify("on_new_tool_call", Head(tool_calls).id, subs)
         \o NotifyToolCalls(Tail(tool_calls), subs)

\* The loop of apply_mutation over new_messages.
RECURSIVE NotifyNewMessages(_, _)
NotifyNewMessages(new_messages, subs) ==
    IF new_messages = <<>>
    THEN <<>>
    ELSE LET message == Head(new_messages)
         IN  Notify("on_new_message", message.id, subs)
             \o (IF message.role = "assistant" /\ message.tool_calls # None
                 THEN NotifyToolCalls(message.tool_calls[1], subs)
                 ELSE <<>>)
             \o NotifyNewMessages(Tail(new_messages), subs)

\* EventHandler::apply_mutation: the notifications it dispatches, in order.
\* new_messages are the messages of the mutation whose id is not among the
\* ids of self.messages at the call.  The notification hooks are the default
\* ones, which return Ok(()).
Notifications(h, m) ==
    (IF m.messages # None
     THEN LET old_message_ids == {h.messages[i].id : i \in 1..Len(h.messages)}
              new_messages ==
                  SelectSeq(m.messages[1], LAMBDA x : x.id \notin old_message_ids)
          IN  NotifyNewMessages(new_messages, h.subscribers)
              \o Notify("on_messages_changed", "-", h.subscribers)
     ELSE <<>>)
    \o (IF m.state # None
        THEN Notify("on_state_changed", "-", h.subscribers)
        ELSE <<>>)

\* What is kept of a handle_event call on event e that returned r: the call's
\* verdict, the mutation returned, the hooks invoked, and the fields before it.
Outcome(e, r) ==
    [kind |-> r.kind, exit |-> r.exit, mutation |-> r.mutation, trace |-> r.trace,
     event |-> e,
     before |-> [messages |-> messages, state |-> state, result |-> result]]

-----------------------------------------------------------------------------
(* The run engine folding a verified stream: every event the verifier      *)
(* accepts is handled by handle_event and the mutation it returns is       *)
(* applied with apply_mutation.                                            *)

\* Events folded in one behaviour.
MaxFolded == 5

\* A subscriber that overrides no hook: every hook returns the default
\* mutation.
DefaultSubscriber ==
    [on_event |-> HookOk(NewMutation), on_variant_event |-> HookOk(NewMutation)]

\* The messages a run starts with: none, or one User message.
UserMessage == User(MessageIdOf(UserText), <<"hi">>)

\* The state patches the folded events carry.
FoldPatches ==
    {<<PatchOp("add", "note", 1)>>,
     <<PatchOp("replace", "count", 1), PatchOp("remove", "note", 0)>>}

InitFold ==
    /\ VerifierInit
    /\ messages \in {<<>>, <<UserMessage>>}
    /\ state = InitialState
    /\ result = Null
    /\ subscribers = <<DefaultSubscriber, DefaultSubscriber>>
    /\ outcome = NoOutcome
    /\ handled = 0
    /\ deltas = NoDeltas
    /\ notified = <<>>
    /\ run = NoRun
    /\ filter = NoFilter
    /\ manager = NoManager
    /\ response = NoResponse
    /\ identifiers = NoIds
    /\ pipeline = NoPipeline

\* The deltas seen so far, per id.  An id started a second time is reused.
RecordDeltas(d, e) ==
    CASE e.type = "TEXT_MESSAGE_START" ->
            [d EXCEPT !.created = @ \cup {MessageIdOf(e.id)},
                      !.reused = IF MessageIdOf(e.id) \in d.created
                                 THEN @ \cup {MessageIdOf(e.id)} ELSE @]
      [] e.type = "TEXT_MESSAGE_CONTENT" ->
            [d EXCEPT !.text[MessageIdOf(e.id)] = @ \o e.delta]
      [] e.type = "TOOL_CALL_START" ->
            [d EXCEPT !.started = @ \cup {e.id},
                      !.parent[e.id] = e.parent,
                      !.reused = IF e.id \in d.started THEN @ \cup {e.id} ELSE @]
      [] e.type = "TOOL_CALL_ARGS" ->
            [d EXCEPT !.args[e.id] = @ \o e.delta]
      [] OTHER -> d

\* One turn of the run loop on the next event of the verified stream: the
\* loop ends at the first error, of the stream or of handle_event.
Fold(e) ==
    /\ handled < MaxFolded
    /\ outcome.kind # "err"
    /\ verify(Self, e).ok
    /\ VerifyStep(e)
    /\ LET r == handle_event(Handler, e)
           h == IF r.kind = "ok" THEN apply_mutation(r.h, r.mutation) ELSE r.h
       IN  /\ messages' = h.messages
           /\ state' = h.state
           /\ result' = h.result
           /\ outcome' = Outcome(e, r)
           /\ notified' = IF r.kind = "ok" THEN Notifications(r.h, r.mutation) ELSE <<>>
    /\ handled' = handled + 1
    /\ deltas' = RecordDeltas(deltas, e)
    /\ UNCHANGED <<subscribers, streamVars, runVars, filterVars, managerVars, responseVars, idVars, pipelineVars>>

FoldStateDeltaEvents == {StateDelta(d) : d \in FoldPatches}

FoldRunStarted == \E e \in RunStartedEvents : Fold(e)
FoldRunFinished == \E e \in RunFinishedEvents : Fold(e)
FoldTextMessageStart == \E e \in TextMessageStartEvents : Fold(e)
FoldTextMessageContent == \E e \in TextMessageContentEvents : Fold(e)
FoldTextMessageEnd == \E e \in TextMessageEndEvents : Fold(e)
FoldToolCallStart == \E e \in ToolCallStartEvents : Fold(e)
FoldToolCallArgs == \E e \in ToolCallArgsEvents : Fold(e)
FoldToolCallEnd == \E e \in ToolCallEndEvents : Fold(e)
FoldStateSnapshot == \E e \in StateSnapshotEvents : Fold(e)
FoldStateDelta == \E e \in FoldStateDeltaEvents : Fold(e)
FoldMessagesSnapshot == \E e \in MessagesSnapshotEvents : Fold(e)

NextFold ==
    \/ FoldRunStarted
    \/ FoldRunFinished
    \/ FoldTextMessageStart
    \/ FoldTextMessageContent
    \/ FoldTextMessageEnd
    \/ FoldToolCallStart
    \/ FoldToolCallArgs
    \/ FoldToolCallEnd
    \/ FoldStateSnapshot
    \/ FoldStateDelta
    \/ FoldMessagesSnapshot

SpecFold == InitFold /\ [][NextFold]_vars

-----------------------------------------------------------------------------
(* Properties of the fold (subscribers that return no mutations).          *)

\* The messages with id m, and the tool calls with id t, in the list.
MessagesWithId(m) == {i \in 1..Len(messages) : messages[i].id = m}

ToolCallsWithId(t) ==
    {<<i, j>> \in (1..Len(messages)) \X (1..2) :
        /\ messages[i].tool_calls # None
        /\ j <= Len(messages[i].tool_calls[1])
        /\ messages[i].tool_calls[1][j].id = t}

\* C12: after a verifier-accepted event sequence has been folded, the content
\* of the message with id m, for every m a TEXT_MESSAGE_START created, is
\* the concatenation in arrival order of the deltas of the
\* TEXT_MESSAGE_CONTENT events that carried m.  (Stated for the ids one
\* TEXT_MESSAGE_START used and one message carries.)
C12_ContentIsConcatenation ==
    \A m \in deltas.created \ deltas.reused :
        \A i \in MessagesWithId(m) :
            Cardinality(MessagesWithId(m)) = 1 =>
                messages[i].content = Some(deltas.text[m])

\* C13: after a verifier-accepted event sequence has been folded, the
\* function.arguments of the tool call with id t is the concatenation in
\* arrival order of the deltas of the TOOL_CALL_ARGS events that carried t.
\* (Stated for the ids one TOOL_CALL_START used, on the tool calls the list
\* holds.)
C13_ArgumentsAreConcatenation ==
    \A t \in deltas.started \ deltas.reused :
        \A p \in ToolCallsWithId(t) :
            messages[p[1]].tool_calls[1][p[2]].function.arguments = deltas.args[t]

\* C14: TOOL_CALL_START{id, name, parentMessageId} appends a tool call to the
\* last message when parentMessageId is that message's id, and adds no
\* message; in every other case it appends exactly one Assistant message,
\* with id parentMessageId if given and a fresh id otherwise.
C14_ToolCallStartRule ==
    [][(handled' = handled + 1 /\ lastEvent'.type = "TOOL_CALL_START") =>
          LET e == lastEvent'
              n == Len(messages)
          IN  IF n > 0 /\ e.parent # None /\ messages[n].id = MessageIdOf(e.parent[1])
              THEN /\ Len(messages') = n
                   /\ SubSeq(messages', 1, n - 1) = SubSeq(messages, 1, n - 1)
                   /\ messages'[n].tool_calls # None
                   /\ messages'[n].tool_calls[1] =
                          (IF messages[n].tool_calls = None THEN <<>>
                           ELSE messages[n].tool_calls[1])
                          \o <<ToolCall(e.id, e.name, EmptyString)>>
              ELSE /\ Len(messages') = n + 1
                   /\ SubSeq(messages', 1, n) = messages
                   /\ messages'[n + 1].role = "assistant"
                   /\ IF e.parent # None
                      THEN messages'[n + 1].id = MessageIdOf(e.parent[1])
                      ELSE \A i \in 1..n : messages[i].id # messages'[n + 1].id]_vars

\* C15: from a list without a message with id m1, folding
\* TOOL_CALL_START(tc1, name, parent m1), TOOL_CALL_ARGS(tc1, d1),
\* TOOL_CALL_ARGS(tc1, d2), TOOL_CALL_END(tc1) (after the RUN_STARTED the
\* verifier asks for) adds exactly one Assistant message with id m1 whose
\* tool_calls is the one tool call tc1 with that name and the arguments d1
\* followed by d2.
C15_ToolCallScenario ==
    ( /\ handled = 5
      /\ lastEvent = Ev("TOOL_CALL_END", "call_1")
      /\ deltas.created = {}
      /\ deltas.started = {"call_1"}
      /\ deltas.reused = {}
      /\ deltas.parent["call_1"] = Some("msg-1")
      /\ Len(deltas.args["call_1"]) = 2 )
    => /\ messages # <<>>
       /\ SubSeq(messages, 1, Len(messages) - 1) \in {<<>>, <<UserMessage>>}
       /\ messages[Len(messages)].role = "assistant"
       /\ messages[Len(messages)].id = MessageIdOf("msg-1")
       /\ messages[Len(messages)].tool_calls =
              Some(<<ToolCall("call_1", "get_temp", deltas.args["call_1"])>>)

\* C17: with subscribers that return no mutations the message list is
\* append-only: over every folded event the ids before are a prefix of the
\* ids after, and every message keeps its position, id and role.
C17_AppendOnly ==
    [][/\ Len(messages') >= Len(messages)
       /\ \A i \in 1..Len(messages) :
              /\ messages'[i].id = messages[i].id
              /\ messages'[i].role = messages[i].role]_vars

\* An event folded into a list that already holds two messages.
C17_Witness ==
    /\ Len(messages) >= 3
    /\ lastEvent.type = "TEXT_MESSAGE_START"
    /\ outcome.kind = "ok"
    /\ subscribers = <<DefaultSubscriber, DefaultSubscriber>>

\* The positions of notified at which hook was called on subscriber i about
\* the message or tool call with the given id.
NotifiedAt(hook, i, about) ==
    {k \in 1..Len(notified) :
        /\ notified[k].hook = hook
        /\ notified[k].subscriber = i
        /\ notified[k].about = about}

\* C21: when the mutation handle_event returned for an event that created a
\* message has been applied with apply_mutation on the same handler,
\* on_new_message was dispatched exactly once for the created message on
\* every subscriber, followed by on_new_tool_call for each of its tool
\* calls, and before on_messages_changed.
C21_NewMessageNotified ==
    (/\ outcome.kind = "ok"
     /\ outcome.event.type \in {"TEXT_MESSAGE_START", "TOOL_CALL_START"}
     /\ Len(messages) = Len(outcome.before.messages) + 1)
        => LET created == messages[Len(messages)]
           IN  \A i \in 1..Len(subscribers) :
                  /\ Cardinality(NotifiedAt("on_new_message", i, created.id)) = 1
                  /\ \A k \in NotifiedAt("on_new_message", i, created.id) :
                         /\ \A c \in NotifiedAt("on_messages_changed", i, "-") : k < c
                         /\ created.tool_calls # None =>
                                \A t \in 1..Len(created.tool_calls[1]) :
                                    \E n \in NotifiedAt("on_new_tool_call", i,
                                                        created.tool_calls[1][t].id) :
                                        k < n

-----------------------------------------------------------------------------
(* Calls of EventHandler::handle_event on a handler with subscribers that  *)
(* return mutations, stop propagation or fail.                             *)

\* Subscribers of the handler, and handle_event calls in one behaviour.
NumSubscribers == 2
MaxHandled == 2

\* What the hooks of subscriber i may return: the default mutation, a
\* mutation with messages and state of its own (with and without
\* stop_propagation), stop_propagation alone, or an error.
SubscriberNames == <<"first", "second", "third">>

SubscriberMessages(i) == <<User(MessageIdOf("subscriber"), <<SubscriberNames[i]>>)>>

SubscriberState(i) == [count |-> i]

Mutate(i, stop) ==
    [messages |-> Some(SubscriberMessages(i)), state |-> Some(SubscriberState(i)),
     stop_propagation |-> stop]

Responses(i) ==
    {HookOk(NewMutation), HookOk(Mutate(i, FALSE)), HookOk(Mutate(i, TRUE)),
     HookOk([NewMutation EXCEPT !.stop_propagation = TRUE]), HookErr}

\* The subscribers at position i.  The variant hook of a subscriber whose
\* on_event stops or fails is never reached: it is the default one.
Subscribers(i) ==
    {s \in [on_event : Responses(i), on_variant_event : Responses(i)] :
        (s.on_event.kind = "err" \/ s.on_event.mutation.stop_propagation)
            => s.on_variant_event = HookOk(NewMutation)}

SubscriberLists ==
    {l \in [1..NumSubscribers -> UNION {Subscribers(i) : i \in 1..NumSubscribers}] :
        \A i \in 1..NumSubscribers : l[i] \in Subscribers(i)}

\* The state patches the handled events carry: patches that apply, that fail
\* at the first operation, that fail after an operation has applied, whose
\* result does not deserialize, and one that does not parse.
HandlerPatches ==
    {<<PatchOp("add", "note", 1)>>,
     <<PatchOp("replace", "count", 1), PatchOp("remove", "note", 0)>>,
     <<PatchOp("add", "note", 1), PatchOp("test", "count", 1)>>,
     <<PatchOp("remove", "count", 0)>>,
     <<PatchOp("test", "count", 1)>>,
     <<PatchOp("merge", "count", 1)>>}

InitHandler ==
    /\ VerifierInit
    /\ messages \in {<<>>, <<UserMessage>>}
    /\ state \in {InitialState, NotedState}
    /\ result = Null
    /\ subscribers \in SubscriberLists
    /\ outcome = NoOutcome
    /\ handled = 0
    /\ deltas = NoDeltas
    /\ notified = <<>>
    /\ run = NoRun
    /\ filter = NoFilter
    /\ manager = NoManager
    /\ response = NoResponse
    /\ identifiers = NoIds
    /\ pipeline = NoPipeline

\* One call handler.handle_event(&e): the fields are left as the call leaves
\* them, also when it returns an error.
Handle(e) ==
    /\ handled < MaxHandled
    /\ \E r \in {handle_event(Handler, e)} :
          /\ messages' = r.h.messages
          /\ state' = r.h.state
          /\ result' = r.h.result
          /\ outcome' = Outcome(e, r)
    /\ handled' = handled + 1
    /\ UNCHANGED <<subscribers, deltas, notified, verifierVars, historyVars, streamVars,
                   runVars, filterVars, managerVars, responseVars, idVars, pipelineVars>>

HandlerStateDeltaEvents == {StateDelta(d) : d \in HandlerPatches}

\* One event of each type is enough here: the subscribers vary.
HandleRunFinished == \E e \in {RunFinished(Some("done"))} \cap RunFinishedEvents : Handle(e)
HandleTextMessageStart ==
    \E e \in {Ev("TEXT_MESSAGE_START", "msg-1")} \cap TextMessageStartEvents : Handle(e)
HandleTextMessageContent ==
    \E e \in {TextMessageContent("msg-1", <<"a">>)} \cap TextMessageContentEvents :
        Handle(e)
HandleToolCallStart ==
    \E e \in {ToolCallStart("call_1", "get_temp", Some("msg-1"))}
              \cap ToolCallStartEvents : Handle(e)
HandleStateSnapshot == \E e \in StateSnapshotEvents : Handle(e)
HandleStateDelta == \E e \in HandlerStateDeltaEvents : Handle(e)
HandleMessagesSnapshot == \E e \in MessagesSnapshotEvents : Handle(e)

NextHandler ==
    \/ HandleRunFinished
    \/ HandleTextMessageStart
    \/ HandleTextMessageContent
    \/ HandleToolCallStart
    \/ HandleStateSnapshot
    \/ HandleStateDelta
    \/ HandleMessagesSnapshot

SpecHandler == InitHandler /\ [][NextHandler]_vars

-----------------------------------------------------------------------------
(* Properties of EventHandler::handle_event.                               *)

\* What the hook at place k of the last call's trace returned.
ResponseAt(k) == subscribers[outcome.trace[k].subscriber][outcome.trace[k].hook]

\* The value of a field (messages or state) after the on_event hooks of the
\* subscribers 1..i returned: that of the last mutation among them that
\* carries the field, else the value before the call.
AfterOnEvent(field, i) ==
    LET carrying == {j \in 1..i : subscribers[j].on_event.mutation[field] # None}
    IN  IF carrying = {}
        THEN outcome.before[field]
        ELSE LET last == CHOOSE j \in carrying : \A k \in carrying : k <= j
             IN  subscribers[last].on_event.mutation[field][1]

\* The state the last call's STATE_DELTA event asks for.
Patched == patch(outcome.before.state, outcome.event.delta)

PatchApplies ==
    /\ ParsePatches(outcome.event.delta)
    /\ Patched.ok
    /\ Deserializes(Patched.doc)

AllOrNothing ==
    \/ /\ PatchApplies
       /\ outcome.kind = "ok"
       /\ state = Patched.doc
       /\ outcome.mutation.state = Some(Patched.doc)
    \/ /\ outcome.kind = "err"
       /\ state = outcome.before.state
       /\ messages = outcome.before.messages

C19_OnEventFirst ==
    outcome.kind # "none" =>
        /\ \A k \in 1..Len(outcome.trace) :
              IF k <= Len(subscribers)
              THEN outcome.trace[k] = [hook |-> "on_event", subscriber |-> k]
              ELSE outcome.trace[k].hook = "on_variant_event"
        /\ \A k \in 1..Len(outcome.trace) :
              ( /\ outcome.trace[k].hook = "on_event"
                /\ ResponseAt(k).kind = "ok"
                /\ ResponseAt(k).mutation.stop_propagation )
              => /\ k = Len(outcome.trace)
                 /\ messages = AfterOnEvent("messages", k)
                 /\ state = AfterOnEvent("state", k)
                 /\ result = outcome.before.result

\* The second subscriber's on_event stopped an event that has a default
\* mutation, after the first subscriber's on_event had returned a mutation.
C19_Witness ==
    /\ outcome.event.type \in {"TEXT_MESSAGE_START", "STATE_SNAPSHOT"}
    /\ Len(outcome.trace) = 2
    /\ outcome.trace[2].hook = "on_event"
    /\ ResponseAt(1) = HookOk(Mutate(1, FALSE))
    /\ ResponseAt(2).kind = "ok"
    /\ ResponseAt(2).mutation.stop_propagation

\* C20: a variant-specific hook that returns a mutation with
\* stop_propagation ends the event: no later subscriber's hook is invoked,
\* the mutation's messages and state (when present) are the handler's, and
\* handle_event returns exactly that mutation.
C20_VariantHookStops ==
    \A k \in 1..Len(outcome.trace) :
        ( /\ outcome.trace[k].hook = "on_variant_event"
          /\ ResponseAt(k).kind = "ok"
          /\ ResponseAt(k).mutation.stop_propagation )
        => /\ k = Len(outcome.trace)
           /\ outcome.kind = "ok"
           /\ outcome.mutation = ResponseAt(k).mutation
           /\ outcome.mutation.messages # None
                  => messages = outcome.mutation.messages[1]
           /\ outcome.mutation.state # None => state = outcome.mutation.state[1]

\* The first subscriber's variant hook stopped the event with a mutation that
\* carries messages and state, on an event whose default mutation had
\* changed the messages.
C20_Witness ==
    /\ outcome.event.type = "TEXT_MESSAGE_START"
    /\ Len(subscribers) = 2
    /\ Len(outcome.trace) = 3
    /\ outcome.trace[3] = [hook |-> "on_variant_event", subscriber |-> 1]
    /\ ResponseAt(3) = HookOk(Mutate(1, TRUE))
    /\ messages = SubscriberMessages(1)

-----------------------------------------------------------------------------
(* Agent::run_agent (agent.rs) with EventExt::apply_and_process_event      *)
(* (event.rs), on a stream that conforms to the protocol.                  *)

\* Events of the stream in one behaviour.
MaxRunEvents == 4

\* EventExt::apply_and_process_event: for RUN_FINISHED on_run_finished is
\* called on every subscriber with e.result.unwrap(), which panics on a
\* RUN_FINISHED without result; the value is the event's result, Null for
\* every other event.  The mutation it returns is always the default one.
\* hooks lists the subscriber hooks it called.
apply_and_process_event(e, subs) ==
    IF e.type = "RUN_FINISHED"
    THEN IF subs # <<>> /\ e.result = None
         THEN [kind |-> "panic", mutation |-> NewMutation, value |-> Null,
               hooks |-> <<>>]
         ELSE [kind |-> "ok", mutation |-> NewMutation,
               value |-> IF e.result # None THEN e.result[1] ELSE Null,
               hooks |-> [i \in 1..Len(subs) |->
                             [hook |-> "on_run_finished", subscriber |-> i]]]
    ELSE [kind |-> "ok", mutation |-> NewMutation, value |-> Null, hooks |-> <<>>]

\* The messages whose id is not in the set ids, in order.
RECURSIVE NotAmong(_, _)
NotAmong(msgs, ids) ==
    IF msgs = <<>>
    THEN <<>>
    ELSE (IF Head(msgs).id \in ids THEN <<>> ELSE <<Head(msgs)>>)
         \o NotAmong(Tail(msgs), ids)

InitRun ==
    /\ VerifierInit
    /\ messages \in {<<>>, <<UserMessage>>}
    /\ state = InitialState
    /\ result = Null
    /\ subscribers \in {<<>>, <<DefaultSubscriber>>,
                        <<DefaultSubscriber, DefaultSubscriber>>}
    /\ outcome = NoOutcome
    /\ handled = 0
    /\ deltas = NoDeltas
    /\ notified = <<>>
    /\ run = NoRun
    /\ filter = NoFilter
    /\ manager = NoManager
    /\ response = NoResponse
    /\ identifiers = NoIds
    /\ pipeline = NoPipeline

\* run_agent up to the first poll of the stream: the ids of the messages
\* held are remembered.
RunAgentBegin ==
    /\ run.pc = "idle"
    /\ run' = [run EXCEPT !.pc = "stream",
                          !.current_message_ids =
                              {messages[i].id : i \in 1..Len(messages)},
                          !.result_val = Null]
    /\ UNCHANGED <<verifierVars, historyVars, streamVars, engineVars, filterVars, managerVars, responseVars, idVars, pipelineVars>>

\* The stream yields Ok(e): the event is processed and its value kept; the
\* mutation is dropped, the messages held stay as they are.
RunAgentEvent(e) ==
    /\ run.pc = "stream"
    /\ handled < MaxRunEvents
    /\ verify(Self, e).ok
    /\ VerifyStep(e)
    /\ \E r \in {apply_and_process_event(e, subscribers)} :
          run' = IF r.kind = "ok"
                 THEN [run EXCEPT !.result_val = r.value, !.hooks = @ \o r.hooks]
                 ELSE [run EXCEPT !.pc = "returned",
                                  !.returned = [NoReturn EXCEPT !.kind = r.kind]]
    /\ handled' = handled + 1
    /\ deltas' = RecordDeltas(deltas, e)
    /\ UNCHANGED <<handlerVars, outcome, notified, streamVars, filterVars, managerVars, responseVars, idVars, pipelineVars>>

\* The stream yields Err(e): run_agent returns the error (the call of
\* on_error is commented out).
RunAgentStreamError ==
    /\ run.pc = "stream"
    /\ run' = [run EXCEPT !.pc = "returned",
                          !.returned = [NoReturn EXCEPT !.kind = "err"]]
    /\ UNCHANGED <<verifierVars, historyVars, streamVars, engineVars, filterVars, managerVars, responseVars, idVars, pipelineVars>>

\* The stream ends (after its RUN_FINISHED): run_agent returns the result and
\* the messages held whose id was not remembered at the start (the call of
\* on_finalize is commented out).
RunAgentEnd ==
    /\ run.pc = "stream"
    /\ run_finished
    /\ run' = [run EXCEPT !.pc = "returned",
                          !.returned =
                              [kind |-> "ok", result |-> run.result_val,
                               new_messages |->
                                   NotAmong(messages, run.current_message_ids)]]
    /\ UNCHANGED <<verifierVars, historyVars, streamVars, engineVars, filterVars, managerVars, responseVars, idVars, pipelineVars>>

RunAgentRunStarted == \E e \in RunStartedEvents : RunAgentEvent(e)
RunAgentRunFinished == \E e \in RunFinishedEvents : RunAgentEvent(e)
RunAgentTextMessageStart == \E e \in TextMessageStartEvents : RunAgentEvent(e)
RunAgentTextMessageContent == \E e \in TextMessageContentEvents : RunAgentEvent(e)
RunAgentTextMessageEnd == \E e \in TextMessageEndEvents : RunAgentEvent(e)
RunAgentToolCallStart == \E e \in ToolCallStartEvents : RunAgentEvent(e)
RunAgentToolCallEnd == \E e \in ToolCallEndEvents : RunAgentEvent(e)

NextRun ==
    \/ RunAgentBegin
    \/ RunAgentRunStarted
    \/ RunAgentRunFinished
    \/ RunAgentTextMessageStart
    \/ RunAgentTextMessageContent
    \/ RunAgentTextMessageEnd
    \/ RunAgentToolCallStart
    \/ RunAgentToolCallEnd
    \/ RunAgentStreamError
    \/ RunAgentEnd

SpecRun == InitRun /\ [][NextRun]_vars

\* C18: run_agent returns as new_messages the messages held at the end of the
\* run whose ids were not among the ids at run start, in their order, and
\* every message a TEXT_MESSAGE_START of the run created with an id not
\* present at run start is among them.
C18_NewMessages ==
    run.returned.kind = "ok" =>
        /\ run.returned.new_messages = NotAmong(messages, run.current_message_ids)
        /\ \A m \in deltas.created \ run.current_message_ids :
              \E i \in 1..Len(run.returned.new_messages) :
                  run.returned.new_messages[i].id = m

\* The calls of the hook named hook that run_agent made, in order.
HookCalls(hook) == SelectSeq(run.hooks, LAMBDA c : c.hook = hook)

\* One call of the hook on every subscriber, in insertion order.
OncePerSubscriber(hook) ==
    [i \in 1..Len(subscribers) |-> [hook |-> hook, subscriber |-> i]]

\* C22: when run_agent returns the error the event stream yielded, it has
\* invoked on_run_failed on every subscriber, in insertion order.
C22_RunFailedNotified ==
    run.returned.kind = "err" => HookCalls("on_run_failed") = OncePerSubscriber("on_run_failed")

\* C23: when run_agent returns the result of a run whose stream ended without
\* an error, it has invoked on_run_finalized exactly once on every
\* subscriber, in insertion order, after the last event was applied.
C23_RunFinalizedNotified ==
    run.returned.kind = "ok" =>
        /\ HookCalls("on_run_finalized") = OncePerSubscriber("on_run_finalized")
        /\ \A k \in 1..Len(run.hooks) :
              run.hooks[k].hook = "on_run_finalized" =>
                  \A j \in 1..Len(run.hooks) :
                      run.hooks[j].hook # "on_run_finalized" => j < k

-----------------------------------------------------------------------------
(* FilterToolCallsMiddleware (middleware/filter_tool_calls.rs): one         *)
(* middleware transforming two streams, polled in any interleaving.        *)

\* Items polled from all the streams in one behaviour.
MaxPolled == 3

\* The tool names and tool-call ids of the streams.
ToolNames == {"search", "delete"}
FilterToolCallIds == {"tc1", "tc2"}

\* An item of a stream: Ok(event) with the event's type, its tool_call_id
\* (None for the events without one) and its tool_call_name, or Err(e).
Item(type, id, name) == [type |-> type, id |-> id, name |-> name]

ToolCallStartItems ==
    {Item("TOOL_CALL_START", Some(i), n) : i \in FilterToolCallIds, n \in ToolNames}
ToolCallArgsItems == {Item("TOOL_CALL_ARGS", Some(i), "-") : i \in FilterToolCallIds}
ToolCallEndItems == {Item("TOOL_CALL_END", Some(i), "-") : i \in FilterToolCallIds}
ToolCallResultItems == {Item("TOOL_CALL_RESULT", Some(i), "-") : i \in FilterToolCallIds}
ToolCallChunkItems ==
    {Item("TOOL_CALL_CHUNK", i, "-") : i \in {None} \cup {Some(j) : j \in FilterToolCallIds}}
OtherItems == {Item("RUN_STARTED", None, "-")}
ErrItems == {Item("Err", None, "-")}

\* The configurations: only search allowed, or search blocked.
FilterConfigs == {Allow({"search"}), Block({"search"})}

\* FilterToolCallsMiddleware::should_filter.
should_filter(config, tool_name) ==
    IF config.kind = "Allow"
    THEN tool_name \notin config.tools
    ELSE tool_name \in config.tools

\* What the closure of filter_map returns for one item, with the blocked ids
\* after it: Some(item) is yielded, None is skipped.
Forwarded_Skips(blocked_ids, item) == [blocked_ids |-> blocked_ids, out |-> None]

Forwarded(blocked_ids, item) == [blocked_ids |-> blocked_ids, out |-> Some(item)]

Filtered(blocked_ids) == [blocked_ids |-> blocked_ids, out |-> None]

\* FilterToolCallsMiddleware::transform, the closure on one item.
transform(config, blocked_ids, item) ==
    CASE item.type = "Err" -> Forwarded(blocked_ids, item)
      [] item.type = "TOOL_CALL_START" ->
            IF should_filter(config, item.name)
            THEN Filtered(blocked_ids \cup {item.id[1]})
            ELSE Forwarded(blocked_ids, item)
      [] item.type \in {"TOOL_CALL_ARGS", "TOOL_CALL_END"} ->
            IF item.id[1] \in blocked_ids
            THEN Filtered(blocked_ids)
            ELSE Forwarded(blocked_ids, item)
      [] item.type = "TOOL_CALL_RESULT" ->
            IF item.id[1] \in blocked_ids
            THEN Filtered(blocked_ids \ {item.id[1]})
            ELSE Forwarded(blocked_ids, item)
      [] item.type = "TOOL_CALL_CHUNK" ->
            IF item.id # None /\ item.id[1] \in blocked_ids
            THEN Filtered(blocked_ids)
            ELSE Forwarded(blocked_ids, item)
      [] OTHER -> Forwarded(blocked_ids, item)

InitFilter ==
    /\ VerifierInit
    /\ messages = <<>>
    /\ state = InitialState
    /\ result = Null
    /\ subscribers = <<>>
    /\ outcome = NoOutcome
    /\ handled = 0
    /\ deltas = NoDeltas
    /\ notified = <<>>
    /\ run = NoRun
    /\ filter \in {[NoFilter EXCEPT !.config = c] : c \in FilterConfigs}
    /\ manager = NoManager
    /\ response = NoResponse
    /\ identifiers = NoIds
    /\ pipeline = NoPipeline

\* The stream that transform returned for stream s is polled and its inner
\* stream yields item: the closure runs on it under the mutex of blocked_ids.
FilterPoll(s, item) ==
    /\ Len(filter.input["A"]) + Len(filter.input["B"]) < MaxPolled
    /\ \E r \in {transform(filter.config, filter.blocked_ids, item)} :
          filter' = [filter EXCEPT !.blocked_ids = r.blocked_ids,
                                   !.input[s] = Append(@, item),
                                   !.output[s] = @ \o r.out,
                                   !.polled = s,
                                   !.before = filter.blocked_ids,
                                   !.forwarded = r.out # None]
    /\ UNCHANGED <<clientVars, managerVars, responseVars, idVars, pipelineVars>>

FilterToolCallStart == \E s \in StreamNames, e \in ToolCallStartItems : FilterPoll(s, e)
FilterToolCallArgs == \E s \in StreamNames, e \in ToolCallArgsItems : FilterPoll(s, e)
FilterToolCallEnd == \E s \in StreamNames, e \in ToolCallEndItems : FilterPoll(s, e)
FilterToolCallResult == \E s \in StreamNames, e \in ToolCallResultItems : FilterPoll(s, e)
FilterToolCallChunk == \E s \in StreamNames, e \in ToolCallChunkItems : FilterPoll(s, e)
FilterOther == \E s \in StreamNames, e \in OtherItems : FilterPoll(s, e)
FilterErr == \E s \in StreamNames, e \in ErrItems : FilterPoll(s, e)

NextFilter ==
    \/ FilterToolCallStart
    \/ FilterToolCallArgs
    \/ FilterToolCallEnd
    \/ FilterToolCallResult
    \/ FilterToolCallChunk
    \/ FilterOther
    \/ FilterErr

SpecFilter == InitFilter /\ [][NextFilter]_vars

\* The events of a call the filter decides on: TOOL_CALL_START, ARGS, END and
\* the TOOL_CALL_CHUNK that carries an id.
CallEvent(e) ==
    \/ e.type \in {"TOOL_CALL_START", "TOOL_CALL_ARGS", "TOOL_CALL_END"}
    \/ e.type = "TOOL_CALL_CHUNK" /\ e.id # None

\* The positions of the TOOL_CALL_START events of the stream with this id.
StartsOf(in, id) ==
    {k \in 1..Len(in) : in[k].type = "TOOL_CALL_START" /\ in[k].id = Some(id)}

\* Every tool-call id of the stream is used by exactly one TOOL_CALL_START.
StartedOnce(in) ==
    \A k \in 1..Len(in) : in[k].id # None => Cardinality(StartsOf(in, in[k].id[1])) = 1

\* The name of the call with this id.
NameOf(in, id) == in[CHOOSE k \in StartsOf(in, id) : TRUE].name

\* C24: for an input stream in which every tool-call id is used by exactly
\* one TOOL_CALL_START, the output holds no START, ARGS, END or id-carrying
\* CHUNK event of a call whose name is filtered, and every such event of
\* every call whose name is not filtered.
C24_FilteredCallsDropped ==
    \A s \in StreamNames :
        StartedOnce(filter.input[s]) =>
            SelectSeq(filter.output[s], CallEvent)
                = SelectSeq(filter.input[s],
                            LAMBDA e : /\ CallEvent(e)
                                       /\ ~should_filter(filter.config,
                                                         NameOf(filter.input[s], e.id[1])))

\* The item polled last.
LastItem == filter.input[filter.polled][Len(filter.input[filter.polled])]

\* The calls of the stream that the filter blocked, each followed by its
\* TOOL_CALL_RESULT.
BlockedCalls(in) ==
    {k \in 1..Len(in) : /\ in[k].type = "TOOL_CALL_START"
                        /\ should_filter(filter.config, in[k].name)}

ResultFollows(in, k) ==
    \E j \in (k + 1)..Len(in) : in[j].type = "TOOL_CALL_RESULT" /\ in[j].id = in[k].id

\* C25: a TOOL_CALL_RESULT whose id is in the blocked set is dropped and the
\* id removed from the set, one whose id is not in the set is forwarded and
\* the set left as it was; and after a stream in which every blocked call is
\* followed by its TOOL_CALL_RESULT the blocked set is empty.
C25_ResultCleansUp ==
    filter.polled # "-" =>
        /\ LastItem.type = "TOOL_CALL_RESULT" =>
              IF LastItem.id[1] \in filter.before
              THEN /\ ~filter.forwarded
                   /\ filter.blocked_ids = filter.before \ {LastItem.id[1]}
              ELSE /\ filter.forwarded
                   /\ filter.blocked_ids = filter.before
        /\ LET in == filter.input[filter.polled]
           IN  (/\ BlockedCalls(in) # {}
                /\ \A k \in BlockedCalls(in) : ResultFollows(in, k))
                   => filter.blocked_ids = {}

\* The items the filter never decides on: stream errors, the events that are
\* no TOOL_CALL_START, ARGS, END, CHUNK or RESULT, and the TOOL_CALL_CHUNK
\* without an id.
PassesThrough(e) ==
    \/ e.type = "Err"
    \/ e.type \notin {"TOOL_CALL_START", "TOOL_CALL_ARGS", "TOOL_CALL_END",
                      "TOOL_CALL_CHUNK", "TOOL_CALL_RESULT"}
    \/ e.type = "TOOL_CALL_CHUNK" /\ e.id = None

\* out is in with some of its items left out.
RECURSIVE Subsequence(_, _)
Subsequence(out, in) ==
    IF out = <<>> THEN TRUE
    ELSE IF in = <<>> THEN FALSE
    ELSE IF Head(out) = Head(in) THEN Subsequence(Tail(out), Tail(in))
    ELSE Subsequence(out, Tail(in))

\* C26: the output is an order-preserving subsequence of the input, it holds
\* every stream error, every event that is no TOOL_CALL_START, ARGS, END,
\* CHUNK or RESULT and every TOOL_CALL_CHUNK without an id, and none of
\* these items changes the blocked set.
C26_PassThrough ==
    /\ \A s \in StreamNames :
          /\ Subsequence(filter.output[s], filter.input[s])
          /\ SelectSeq(filter.output[s], PassesThrough)
                 = SelectSeq(filter.input[s], PassesThrough)
    /\ (filter.polled # "-" /\ PassesThrough(LastItem)) =>
          /\ filter.forwarded
          /\ filter.blocked_ids = filter.before

\* A stream error, a non-tool event or a chunk without an id has just been
\* polled while an id was blocked, after an event of a blocked call was
\* dropped from the same stream.
C26_Witness ==
    /\ filter.polled # "-"
    /\ PassesThrough(LastItem)
    /\ filter.before # {}
    /\ Len(filter.output[filter.polled]) < Len(filter.input[filter.polled])
    /\ Len(filter.output[filter.polled]) >= 2

\* The output of transform on a stream that has a blocked set of its own.
RECURSIVE OwnOutput(_, _, _)
OwnOutput(config, blocked_ids, in) ==
    IF in = <<>>
    THEN <<>>
    ELSE LET r == transform(config, blocked_ids, Head(in))
         IN  r.out \o OwnOutput(config, r.blocked_ids, Tail(in))

\* C27: the blocked ids are per stream: whether an event of a stream is
\* dropped depends only on the earlier events of that stream, so the output
\* of every stream is what the filter yields on that stream alone.
C27_PerStreamState ==
    \A s \in StreamNames :
        filter.output[s] = OwnOutput(filter.config, {}, filter.input[s])

-----------------------------------------------------------------------------
(* StateManager (ag-ui-server, state/manager.rs): clones of one manager,   *)
(* called from several threads.                                            *)

\* Write calls (update, update_if, replace, apply_patch) in one behaviour.
MaxCalls == 2

\* The closures given to update and update_if, as the assignments each makes
\* to the state, in order: nothing, count += 1, count += 1 and then
\* note = count, and note = None.
Closures == {"nothing", "incr", "both", "drop"}

Steps(f) ==
    CASE f = "nothing" -> <<>>
      [] f = "incr" -> <<"incr">>
      [] f = "both" -> <<"incr", "note">>
      [] f = "drop" -> <<"drop">>

\* One assignment of a closure.
Assign(a, s) ==
    CASE a = "incr" -> [s EXCEPT !.count = @ + 1]
      [] a = "note" -> Put(s, "note", s.count)
      [] a = "drop" -> Drop(s, "note")

\* The predicates given to update_if.
Predicates == {"fresh", "noted"}

Predicate(p, s) ==
    CASE p = "fresh" -> s.count = 0
      [] p = "noted" -> "note" \in DOMAIN s

\* The members of the state, in the order diff visits them.
KeyOrder == <<"count", "note">>

diff_Empty(before, after) == <<>>

\* json_patch::diff of two objects: remove for a member only before has, add
\* for a member only after has, replace for a member whose value differs.
diff(before, after) ==
    LET op(k) ==
            IF k \in DOMAIN before /\ k \notin DOMAIN after
            THEN <<PatchOp("remove", k, 0)>>
            ELSE IF k \notin DOMAIN before /\ k \in DOMAIN after
            THEN <<PatchOp("add", k, after[k])>>
            ELSE IF k \in DOMAIN before /\ k \in DOMAIN after /\ before[k] # after[k]
            THEN <<PatchOp("replace", k, after[k])>>
            ELSE <<>>
    IN  op(KeyOrder[1]) \o op(KeyOrder[2])

\* What a call returns: Ok(patch) (Ok(Some(patch)) for update_if, Ok(()) with
\* the empty patch for apply_patch), Ok(None), or Err.
RetOk(ops) == [kind |-> "Ok", patch |-> ops]
RetNone == [kind |-> "None", patch |-> <<>>]
RetErr == [kind |-> "Err", patch |-> <<>>]

\* The calls the threads make.
UpdateCalls == {ManagerCall("update", f, "-", InitialState, <<>>) : f \in Closures}
UpdateIfCalls ==
    {ManagerCall("update_if", f, p, InitialState, <<>>) :
        f \in {"incr", "both"}, p \in Predicates}
ReplaceCalls == {ManagerCall("replace", "-", "-", s, <<>>) : s \in {InitialState, NotedState}}
ApplyPatchCalls ==
    {ManagerCall("apply_patch", "-", "-", InitialState, ops) :
        ops \in {<<PatchOp("add", "note", 1)>>,
                 <<PatchOp("replace", "count", 1), PatchOp("remove", "note", 0)>>,
                 <<PatchOp("remove", "count", 0)>>}}
ReadCalls == {ManagerCall(op, "-", "-", InitialState, <<>>) : op \in {"read", "snapshot"}}

CanWrite_NotExclusive(m) == TRUE

\* RwLock::write is granted when no thread holds the lock.
CanWrite(m) == m.writer = "-" /\ m.readers = {}

\* RwLock::read is granted when no thread holds the write lock.
CanRead(m) == m.writer = "-"

update_if_proceeds_Always(p, s) == TRUE

\* update_if: the early return is not taken.
update_if_proceeds(p, s) == Predicate(p, s)

\* The call returns: the lock is released and the call is entered in the log
\* with the states at its lock, its check, its start and its return.
Return(m, t, ret) ==
    [m EXCEPT !.writer = "-",
              !.threads[t] = Idle,
              !.log = Append(@, [call |-> m.threads[t].call,
                                 acquired |-> m.threads[t].acquired,
                                 checked |-> m.threads[t].checked,
                                 started |-> m.threads[t].started,
                                 released |-> m.state,
                                 ret |-> ret])]

InitManager ==
    /\ VerifierInit
    /\ messages = <<>>
    /\ state = InitialState
    /\ result = Null
    /\ subscribers = <<>>
    /\ outcome = NoOutcome
    /\ handled = 0
    /\ deltas = NoDeltas
    /\ notified = <<>>
    /\ run = NoRun
    /\ filter = NoFilter
    /\ manager \in {[NoManager EXCEPT !.state = s, !.initial = s] :
                       s \in {InitialState, NotedState}}
    /\ response = NoResponse
    /\ identifiers = NoIds
    /\ pipeline = NoPipeline

\* self.state.write() of update, update_if, replace and apply_patch; update
\* and replace then serialize the state before the update.
ManagerWrite(t, c) ==
    /\ manager.threads[t].pc = "idle"
    /\ manager.calls < MaxCalls
    /\ CanWrite(manager)
    /\ manager' =
          [manager EXCEPT
              !.writer = t,
              !.calls = @ + 1,
              !.threads[t] =
                  [Idle EXCEPT !.pc = IF c.op = "update_if" THEN "check"
                                      ELSE IF c.op = "apply_patch" THEN "patch"
                                      ELSE "f",
                               !.call = c,
                               !.acquired = manager.state,
                               !.checked = manager.state,
                               !.started = manager.state,
                               !.before = manager.state,
                               !.todo = IF c.op = "replace" THEN <<"set">>
                                        ELSE IF c.op = "update" THEN Steps(c.f)
                                        ELSE <<>>]]
    /\ UNCHANGED <<clientVars, filterVars, responseVars, idVars, pipelineVars>>

\* update_if: the predicate on the state; when it is false the call returns
\* Ok(None), else the state is serialized and f starts.
ManagerCheck(t) ==
    /\ manager.threads[t].pc = "check"
    /\ manager' =
          IF update_if_proceeds(manager.threads[t].call.predicate, manager.state)
          THEN [manager EXCEPT !.threads[t].pc = "f",
                               !.threads[t].checked = manager.state,
                               !.threads[t].started = manager.state,
                               !.threads[t].before = manager.state,
                               !.threads[t].todo = Steps(manager.threads[t].call.f)]
          ELSE Return([manager EXCEPT !.threads[t].checked = manager.state,
                                      !.threads[t].started = manager.state],
                      t, RetNone)
    /\ UNCHANGED <<clientVars, filterVars, responseVars, idVars, pipelineVars>>

\* f(&mut guard): the next assignment of the closure (for replace the single
\* assignment of new_state).
ManagerAssign(t) ==
    /\ manager.threads[t].pc = "f"
    /\ manager.threads[t].todo # <<>>
    /\ manager' =
          [manager EXCEPT
              !.state = IF Head(manager.threads[t].todo) = "set"
                        THEN manager.threads[t].call.new_state
                        ELSE Assign(Head(manager.threads[t].todo), @),
              !.threads[t].todo = Tail(@)]
    /\ UNCHANGED <<clientVars, filterVars, responseVars, idVars, pipelineVars>>

\* The closure has returned: the state is serialized, the diff is computed
\* and returned, the guard is dropped.
ManagerDiff(t) ==
    /\ manager.threads[t].pc = "f"
    /\ manager.threads[t].todo = <<>>
    /\ manager' = Return(manager, t, RetOk(diff(manager.threads[t].before, manager.state)))
    /\ UNCHANGED <<clientVars, filterVars, responseVars, idVars, pipelineVars>>

ManagerPatch_KeepsPartial(t) ==
    /\ manager.threads[t].pc = "patch"
    /\ \E r \in {patch(manager.state, manager.threads[t].call.patch)} :
          manager' =
              IF r.ok /\ Deserializes(r.doc)
              THEN Return([manager EXCEPT !.state = r.doc], t, RetOk(<<>>))
              ELSE Return([manager EXCEPT !.state = r.doc], t, RetErr)
    /\ UNCHANGED <<clientVars, filterVars, responseVars, idVars, pipelineVars>>

\* apply_patch: the patch is applied to the serialized state; the state is
\* assigned when the patch applied and the result deserialized.
ManagerPatch(t) ==
    /\ manager.threads[t].pc = "patch"
    /\ \E r \in {patch(manager.state, manager.threads[t].call.patch)} :
          manager' =
              IF r.ok /\ Deserializes(r.doc)
              THEN Return([manager EXCEPT !.state = r.doc], t, RetOk(<<>>))
              ELSE Return(manager, t, RetErr)
    /\ UNCHANGED <<clientVars, filterVars, responseVars, idVars, pipelineVars>>

\* self.state.read() of read and snapshot.
ManagerRead(t, c) ==
    /\ manager.threads[t].pc = "idle"
    /\ CanRead(manager)
    /\ manager' = [manager EXCEPT !.readers = @ \cup {t},
                                  !.threads[t] = [Idle EXCEPT !.pc = "reading",
                                                              !.call = c]]
    /\ UNCHANGED <<clientVars, filterVars, responseVars, idVars, pipelineVars>>

\* f(&guard) of read, or the clone of snapshot; the guard is dropped.
ManagerSee(t) ==
    /\ manager.threads[t].pc = "reading"
    /\ manager' = [manager EXCEPT !.readers = @ \ {t},
                                  !.seen = @ \cup {manager.state},
                                  !.threads[t] = Idle]
    /\ UNCHANGED <<clientVars, filterVars, responseVars, idVars, pipelineVars>>

ManagerUpdate == \E t \in ThreadNames, c \in UpdateCalls : ManagerWrite(t, c)
ManagerUpdateIf == \E t \in ThreadNames, c \in UpdateIfCalls : ManagerWrite(t, c)
ManagerReplace == \E t \in ThreadNames, c \in ReplaceCalls : ManagerWrite(t, c)
ManagerApplyPatch == \E t \in ThreadNames, c \in ApplyPatchCalls : ManagerWrite(t, c)
ManagerReadOrSnapshot == \E t \in ThreadNames, c \in ReadCalls : ManagerRead(t, c)

NextManager ==
    \/ ManagerUpdate
    \/ ManagerUpdateIf
    \/ ManagerReplace
    \/ ManagerApplyPatch
    \/ ManagerReadOrSnapshot
    \/ \E t \in ThreadNames : ManagerCheck(t)
    \/ \E t \in ThreadNames : ManagerAssign(t)
    \/ \E t \in ThreadNames : ManagerDiff(t)
    \/ \E t \in ThreadNames : ManagerPatch(t)
    \/ \E t \in ThreadNames : ManagerSee(t)

SpecManager == InitManager /\ [][NextManager]_vars

\* The closure run in one piece.
RECURSIVE RunAll(_, _)
RunAll(todo, s) == IF todo = <<>> THEN s ELSE RunAll(Tail(todo), Assign(Head(todo), s))

\* C28: for every update(f) that returned Ok(patch), the patch applied as a
\* JSON Patch to the serialization of the state held at the call yields the
\* serialization of the state held after it, and the patch is empty when f
\* changed nothing.
C28_PatchIsDelta ==
    \A k \in 1..Len(manager.log) :
        LET c == manager.log[k]
        IN  (c.call.op = "update" /\ c.ret.kind = "Ok") =>
                /\ patch(c.acquired, c.ret.patch) = [ok |-> TRUE, doc |-> c.released]
                /\ c.released = c.acquired => c.ret.patch = <<>>

\* An update that added a member and changed another has returned, and so
\* has one that changed nothing.
C28_Witness ==
    /\ \E k \in 1..Len(manager.log) :
          /\ manager.log[k].call.op = "update"
          /\ manager.log[k].call.f = "both"
          /\ Len(manager.log[k].ret.patch) = 2
          /\ manager.log[k].ret.patch[2].op = "add"
    /\ \E k \in 1..Len(manager.log) :
          /\ manager.log[k].call.op = "update"
          /\ manager.log[k].call.f = "nothing"
          /\ manager.log[k].ret.patch = <<>>

\* What a call does and returns when it runs alone on the state s.
Alone(c, s) ==
    CASE c.op = "update" ->
            [state |-> RunAll(Steps(c.f), s), ret |-> RetOk(diff(s, RunAll(Steps(c.f), s)))]
      [] c.op = "update_if" ->
            IF Predicate(c.predicate, s)
            THEN [state |-> RunAll(Steps(c.f), s),
                  ret |-> RetOk(diff(s, RunAll(Steps(c.f), s)))]
            ELSE [state |-> s, ret |-> RetNone]
      [] c.op = "replace" ->
            [state |-> c.new_state, ret |-> RetOk(diff(s, c.new_state))]
      [] c.op = "apply_patch" ->
            LET r == patch(s, c.patch)
            IN  IF r.ok /\ Deserializes(r.doc)
                THEN [state |-> r.doc, ret |-> RetOk(<<>>)]
                ELSE [state |-> s, ret |-> RetErr]

\* The state the calls returned so far have left.
Committed(k) == IF k = 0 THEN manager.initial ELSE manager.log[k].released

\* C29: the update, update_if, replace and apply_patch calls made on clones
\* of one StateManager are serialized: in the order in which they return,
\* each call starts from the state the call before it left and leaves and
\* returns what it does alone on that state (so no update is lost), each
\* patch returned transforms the state before its call into the state after
\* it, and read and snapshot only see states that calls have left.
C29_Serialized ==
    /\ \A k \in 1..Len(manager.log) :
          LET c == manager.log[k]
          IN  /\ c.acquired = Committed(k - 1)
              /\ [state |-> c.released, ret |-> c.ret] = Alone(c.call, c.acquired)
              /\ (c.ret.kind = "Ok" /\ c.call.op # "apply_patch") =>
                     patch(c.acquired, c.ret.patch).doc = c.released
    /\ manager.writer = "-" => manager.state = Committed(Len(manager.log))
    /\ manager.seen \subseteq {Committed(k) : k \in 0..Len(manager.log)}

\* Both threads have made a write call that changed the state, and a read
\* has seen the state between the two.
C29_Witness ==
    /\ Len(manager.log) >= 2
    /\ manager.log[1].released # manager.log[1].acquired
    /\ manager.log[2].released # manager.log[2].acquired
    /\ manager.log[1].released \in manager.seen
    /\ manager.log[2].call.f = "both"

\* C30: update_if is an atomic check-then-act: f is applied only to a state
\* on which the predicate returned true, which is the state the check saw
\* (no writer ran in between); when the predicate returns false the call
\* returns Ok(None) and the state is unchanged.
C30_CheckThenAct ==
    \A k \in 1..Len(manager.log) :
        LET c == manager.log[k]
        IN  c.call.op = "update_if" =>
                IF c.ret.kind = "None"
                THEN /\ ~Predicate(c.call.predicate, c.checked)
                     /\ c.released = c.acquired
                     /\ c.released = Committed(k - 1)
                ELSE /\ Predicate(c.call.predicate, c.checked)
                     /\ c.started = c.checked
                     /\ c.checked = Committed(k - 1)
                     /\ c.released = RunAll(Steps(c.call.f), c.checked)

\* An update_if whose predicate held has updated the state, after a call of
\* the other kind made the predicate of another update_if false.
C30_Witness ==
    /\ \E k \in 1..Len(manager.log) :
          /\ manager.log[k].call.op = "update_if"
          /\ manager.log[k].ret.kind = "Ok"
          /\ manager.log[k].released # manager.log[k].acquired
    /\ \E k \in 1..Len(manager.log) :
          /\ manager.log[k].call.op = "update_if"
          /\ manager.log[k].ret.kind = "None"

\* C31: when apply_patch returns an error (an operation of the patch cannot
\* be applied, or the patched value does not deserialize into the state
\* type), the managed state is the state before the call, also when earlier
\* operations of the same patch had applied.
C31_FailedPatchKeepsState ==
    \A k \in 1..Len(manager.log) :
        LET c == manager.log[k]
        IN  (c.call.op = "apply_patch" /\ c.ret.kind = "Err") =>
                /\ c.released = c.acquired
                /\ c.released = Committed(k - 1)

\* An apply_patch has failed at its second operation after its first had
\* changed the document, and another has failed to deserialize.
C31_Witness ==
    /\ \E k \in 1..Len(manager.log) :
          LET c == manager.log[k]
          IN  /\ c.call.op = "apply_patch"
              /\ c.ret.kind = "Err"
              /\ Len(c.call.patch) = 2
              /\ ApplyOp(c.acquired, c.call.patch[1]).ok
              /\ ApplyOp(c.acquired, c.call.patch[1]).doc # c.acquired
              /\ ~patch(c.acquired, c.call.patch).ok
    /\ \E k \in 1..Len(manager.log) :
          LET c == manager.log[k]
          IN  /\ c.call.op = "apply_patch"
              /\ c.ret.kind = "Err"
              /\ patch(c.acquired, c.call.patch).ok
              /\ ~Deserializes(patch(c.acquired, c.call.patch).doc)

-----------------------------------------------------------------------------
(* run_agent_handler (ag-ui-server, integrations/axum.rs): one request, the *)
(* stream the agent returns for it and the frames of the response body.    *)

\* Items of the agent's stream mapped to frames in one behaviour.
MaxItems == 3

\* The variants of AgentError.
AgentErrorKinds ==
    {"Aborted", "ProtocolViolation", "State", "Encoding", "Transport", "Custom",
     "Internal"}

\* The codes the protocol names for a RUN_ERROR frame.
ErrorCodes ==
    {"ABORTED", "PROTOCOL_VIOLATION", "STATE_ERROR", "ENCODING_ERROR",
     "TRANSPORT_ERROR", "CUSTOM_ERROR", "INTERNAL_ERROR"}

error_code(kind) ==
    CASE kind = "Aborted" -> "ABORTED"
      [] kind = "ProtocolViolation" -> "PROTOCOL_VIOLATION"
      [] kind = "State" -> "STATE_ERROR"
      [] kind = "Encoding" -> "ENCODING_ERROR"
      [] kind = "Transport" -> "TRANSPORT_ERROR"
      [] kind = "Custom" -> "CUSTOM_ERROR"
      [] kind = "Internal" -> "INTERNAL_ERROR"

\* An event as the encoder sees it: its type, the code of a RUN_ERROR, and
\* whether its JSON is longer than MAX_EVENT_SIZE.
WireEvent(type, code, too_large) == [type |-> type, code |-> code, too_large |-> too_large]

\* A frame of the body: encoded from an event, or the raw last-resort text
\* that carries a type and a message only.
Frame(type, code) == [type |-> type, code |-> code, raw |-> FALSE]
RawFrame == [type |-> "RUN_ERROR", code |-> None, raw |-> TRUE]

\* sse::encode: the event as one data frame, or EventTooLarge.
encode(event) ==
    IF event.too_large
    THEN [ok |-> FALSE, frame |-> RawFrame]
    ELSE [ok |-> TRUE, frame |-> Frame(event.type, event.code)]

\* The items an agent's stream yields: Ok(event), or Err(e) with the variant
\* of e and whether its message makes the RUN_ERROR event too large.
OkItem(type, too_large) == [ok |-> TRUE, type |-> type, kind |-> "-", too_large |-> too_large]
ErrItem(kind, too_large) == [ok |-> FALSE, type |-> "-", kind |-> kind, too_large |-> too_large]

AgentOkItems ==
    {OkItem(t, FALSE) : t \in {"RUN_STARTED", "TEXT_MESSAGE_CONTENT", "RUN_FINISHED",
                               "RUN_ERROR"}}
        \cup {OkItem("TEXT_MESSAGE_CONTENT", TRUE)}

AgentErrItems ==
    {ErrItem(k, FALSE) : k \in AgentErrorKinds} \cup {ErrItem("Custom", TRUE)}

\* The closure of event_stream.map: the frame written for one item.
map_item(item) ==
    IF item.ok
    THEN LET r == encode(WireEvent(item.type, None, item.too_large))
         IN  IF r.ok
             THEN r.frame
             ELSE LET again == encode(WireEvent("RUN_ERROR", Some("ENCODE_ERROR"), FALSE))
                  IN  IF again.ok THEN again.frame ELSE RawFrame
    ELSE LET r == encode(WireEvent("RUN_ERROR", Some(error_code(item.kind)), item.too_large))
         IN  IF r.ok THEN r.frame ELSE RawFrame

InitResponse ==
    /\ VerifierInit
    /\ messages = <<>>
    /\ state = InitialState
    /\ result = Null
    /\ subscribers = <<>>
    /\ outcome = NoOutcome
    /\ handled = 0
    /\ deltas = NoDeltas
    /\ notified = <<>>
    /\ run = NoRun
    /\ filter = NoFilter
    /\ manager = NoManager
    /\ response = NoResponse
    /\ identifiers = NoIds
    /\ pipeline = NoPipeline

\* The early returns of run_agent_handler: the body cannot be read or is no
\* RunAgentInput (400), or agent.run returns Err (500).
RespondRejected ==
    /\ response.pc = "request"
    /\ \E status \in {"BAD_REQUEST", "INTERNAL_SERVER_ERROR"} :
          response' = [response EXCEPT !.pc = "done", !.status = status]
    /\ UNCHANGED <<clientVars, filterVars, managerVars, idVars, pipelineVars>>

\* agent.run returned a stream: the response is built with status 200 and
\* the mapped stream as its body.
RespondStreaming ==
    /\ response.pc = "request"
    /\ response' = [response EXCEPT !.pc = "streaming", !.status = "OK"]
    /\ UNCHANGED <<clientVars, filterVars, managerVars, idVars, pipelineVars>>

\* The body is polled and the agent's stream yields an item.
RespondPoll(item) ==
    /\ response.pc = "streaming"
    /\ Len(response.items) < MaxItems
    /\ response' = [response EXCEPT !.items = Append(@, item),
                                    !.frames = Append(@, map_item(item))]
    /\ UNCHANGED <<clientVars, filterVars, managerVars, idVars, pipelineVars>>

RespondEvent == \E item \in AgentOkItems : RespondPoll(item)
RespondError == \E item \in AgentErrItems : RespondPoll(item)

\* The agent's stream ends, and the body with it.
RespondEnd ==
    /\ response.pc = "streaming"
    /\ response' = [response EXCEPT !.pc = "done"]
    /\ UNCHANGED <<clientVars, filterVars, managerVars, idVars, pipelineVars>>

NextResponse ==
    \/ RespondRejected
    \/ RespondStreaming
    \/ RespondEvent
    \/ RespondError
    \/ RespondEnd

SpecResponse == InitResponse /\ [][NextResponse]_vars

\* C32: in the response body a RUN_ERROR frame is terminal: no frame is
\* written after it, and the last frame of every response is RUN_FINISHED or
\* RUN_ERROR.
C32_RunErrorTerminal ==
    /\ \A i \in 1..Len(response.frames) :
          response.frames[i].type = "RUN_ERROR" => i = Len(response.frames)
    /\ (response.pc = "done" /\ response.status = "OK") =>
          /\ response.frames # <<>>
          /\ response.frames[Len(response.frames)].type \in {"RUN_FINISHED", "RUN_ERROR"}

\* The item a frame was written for is a failure: an error item of the
\* agent's stream, or an event that could not be encoded.
Failure(item) == ~item.ok \/ item.too_large

\* C33: every failure after streaming has started is reported as a
\* RUN_ERROR frame, the status stays 200, and the frame's code is one of the
\* seven protocol codes, given by the kind of the error: error_code of the
\* variant for an error item, ENCODING_ERROR for an encoding failure.
C33_FailuresAreCodedFrames ==
    \A i \in 1..Len(response.items) :
        Failure(response.items[i]) =>
            /\ response.status = "OK"
            /\ response.frames[i].type = "RUN_ERROR"
            /\ response.frames[i].code \in {Some(c) : c \in ErrorCodes}
            /\ response.frames[i].code =
                   Some(IF response.items[i].ok
                        THEN "ENCODING_ERROR"
                        ELSE error_code(response.items[i].kind))

-----------------------------------------------------------------------------
(* The ID types of define_id_type! (ag-ui-core, types/ids.rs): AgentId,    *)
(* ThreadId, RunId and MessageId built, serialized and deserialized.       *)

\* IDs built in one behaviour.
MaxIds == 2

IdTypes == {"AgentId", "ThreadId", "RunId", "MessageId"}

\* A second string that is no UUID, in LangGraph's format.
LangGraphText == "lc_run--1"

\* The strings IDs are built from: two that are no UUID, one UUID in its
\* canonical and in its upper-case text, and the canonical text of the UUID
\* that "msg-1" hashes to.
IdTexts == RawTexts \cup {LangGraphText} \cup UuidTexts \cup {UuidV5("msg-1")}

\* The Uuid values IDs are made from directly, as their canonical texts.
Uuids == {CanonicalUuidText, RandomUuid}

\* Uuid::parse_str: the UUID a text denotes (as its canonical text), or an
\* error for a text that is no UUID.
parse_str(s) ==
    IF s \in UuidTexts THEN Some(UuidCanonical(s))
    ELSE IF s \in Uuids \cup {UuidV5(t) : t \in RawTexts \cup {LangGraphText}} THEN Some(s)
    ELSE None

\* $name::new(s).
IdNew(type, s) ==
    IF parse_str(s) # None
    THEN [type |-> type, uuid |-> parse_str(s)[1], raw |-> None]
    ELSE [type |-> type, uuid |-> UuidV5(s), raw |-> Some(s)]

\* impl From<Uuid> for $name, and $name::random with the UUID drawn.
IdFromUuid(type, uuid) == [type |-> type, uuid |-> uuid, raw |-> None]

IdSerialize_AlwaysUuid(id) == id.uuid

\* impl Serialize: the original string if there is one, else the UUID's text.
IdSerialize(id) ==
    IF id.raw # None THEN id.raw[1] ELSE id.uuid

\* impl Deserialize: the string, given to new.
IdDeserialize(type, s) == IdNew(type, s)

\* impl PartialEq (between two IDs of one type).
IdEq(a, b) == a.uuid = b.uuid

\* impl Hash: what the ID feeds to the hasher.
IdHash(id) == <<id.uuid>>

\* An ID built from the string or Uuid src, not serialized yet.
Built(type, from, src, id) ==
    [type |-> type, from |-> from, src |-> src, id |-> id, wire |-> None, back |-> None]

NewIds == {Built(t, "new", s, IdNew(t, s)) : t \in IdTypes, s \in IdTexts}
FromUuidIds == {Built(t, "from", u, IdFromUuid(t, u)) : t \in IdTypes, u \in Uuids}

InitIds ==
    /\ VerifierInit
    /\ messages = <<>>
    /\ state = InitialState
    /\ result = Null
    /\ subscribers = <<>>
    /\ outcome = NoOutcome
    /\ handled = 0
    /\ deltas = NoDeltas
    /\ notified = <<>>
    /\ run = NoRun
    /\ filter = NoFilter
    /\ manager = NoManager
    /\ response = NoResponse
    /\ identifiers = NoIds
    /\ pipeline = NoPipeline

\* An ID is built.
IdBuild(b) ==
    /\ Len(identifiers) < MaxIds
    /\ identifiers' = Append(identifiers, b)
    /\ UNCHANGED <<clientVars, filterVars, managerVars, responseVars, pipelineVars>>

IdBuildNew == \E b \in NewIds : IdBuild(b)
IdBuildFromUuid == \E b \in FromUuidIds : IdBuild(b)

\* serde_json::to_string of an ID built.
IdWrite ==
    /\ \E i \in 1..Len(identifiers) :
          /\ identifiers[i].wire = None
          /\ identifiers' =
                [identifiers EXCEPT ![i].wire = Some(IdSerialize(identifiers[i].id))]
    /\ UNCHANGED <<clientVars, filterVars, managerVars, responseVars, pipelineVars>>

\* serde_json::from_str of what was written.
IdRead ==
    /\ \E i \in 1..Len(identifiers) :
          /\ identifiers[i].wire # None
          /\ identifiers[i].back = None
          /\ identifiers' =
                [identifiers EXCEPT
                    ![i].back = Some(IdDeserialize(identifiers[i].type,
                                                   identifiers[i].wire[1]))]
    /\ UNCHANGED <<clientVars, filterVars, managerVars, responseVars, pipelineVars>>

NextIds ==
    \/ IdBuildNew
    \/ IdBuildFromUuid
    \/ IdWrite
    \/ IdRead

SpecIds == InitIds /\ [][NextIds]_vars

\* C34: for AgentId, ThreadId, RunId and MessageId, an ID built from a
\* string that is no UUID serializes to that string and one built from a
\* canonical UUID string serializes to that string; deserializing what an ID
\* serialized to gives an ID equal to it; and two IDs of one type built from
\* the same string are equal and have equal hashes.
C34_IdRoundTrip ==
    /\ \A i \in 1..Len(identifiers) :
          LET b == identifiers[i]
          IN  /\ (b.wire # None /\ b.from = "new"
                    /\ (parse_str(b.src) = None \/ parse_str(b.src) = Some(b.src))) =>
                     b.wire = Some(b.src)
              /\ b.back # None => IdEq(b.back[1], b.id)
    /\ \A i, j \in 1..Len(identifiers) :
          LET a == identifiers[i]
              b == identifiers[j]
          IN  (a.from = "new" /\ b.from = "new" /\ a.type = b.type /\ a.src = b.src) =>
                  /\ IdEq(a.id, b.id)
                  /\ IdHash(a.id) = IdHash(b.id)

\* An ID built from a non-UUID string and one of the same type built from
\* the same string again have both been serialized and read back.
C34_Witness ==
    /\ Len(identifiers) = 2
    /\ identifiers[1].from = "new"
    /\ identifiers[1].src = LangGraphText
    /\ identifiers[2].from = "new"
    /\ identifiers[2].src = LangGraphText
    /\ identifiers[1].type = identifiers[2].type
    /\ identifiers[1].wire = Some(LangGraphText)
    /\ identifiers[1].back # None
    /\ identifiers[2].back # None

-----------------------------------------------------------------------------
(* EventVerifier::verify (Spec): the events without a rule of their own,   *)
(* rejected calls, and the end of a run.                                   *)

\* C35: while a run is active (RUN_STARTED accepted, no RUN_FINISHED or
\* RUN_ERROR accepted since), verify accepts TEXT_MESSAGE_CHUNK,
\* TOOL_CALL_CHUNK, TOOL_CALL_RESULT, STATE_SNAPSHOT, STATE_DELTA,
\* MESSAGES_SNAPSHOT, RAW and CUSTOM whatever else is open, and accepting
\* one of them changes no field of the verifier.
C35_OtherEventsAccepted ==
    [][(runActive /\ lastEvent'.type \in OtherTypes) =>
          /\ lastOk'
          /\ Self' = Self]_vars

\* One of these events has been accepted in an active run while a text
\* message, a tool call, a step and a thinking step were open.
C35_Witness ==
    /\ runActive
    /\ lastOk
    /\ lastEvent.type \in OtherTypes
    /\ active_messages # {}
    /\ active_tool_calls # {}
    /\ active_steps # {}
    /\ active_thinking

\* C36: on any verifier, after any sequence of verify calls (rejected ones
\* included), an event other than RUN_STARTED and RUN_ERROR is accepted only
\* if an earlier call accepted a RUN_STARTED (run_started is assigned by the
\* RunStarted arm alone and never cleared); in particular the event that
\* follows a rejected first event is rejected unless it is RUN_STARTED or
\* RUN_ERROR.
C36_NothingBeforeRunStarted ==
    [][/\ (lastOk' /\ lastEvent'.type \notin {"RUN_STARTED", "RUN_ERROR"}) => run_started
       /\ (calls = "one" /\ ~lastOk
             /\ lastEvent'.type \in {"TEXT_MESSAGE_START", "STATE_SNAPSHOT", "RUN_FINISHED"}) =>
              ~lastOk']_vars

\* C37: a verify call that returns an error leaves every field of the
\* verifier unchanged.
C37_RejectionChangesNothing ==
    [][~lastOk' => Self' = Self]_vars

\* C38: verify accepts RUN_FINISHED only when every sub-flow is closed,
\* thinking included: when a RUN_FINISHED is accepted, active_thinking and
\* active_thinking_message are both false.
C38_RunFinishedClosesThinking ==
    [][(lastOk' /\ lastEvent'.type = "RUN_FINISHED") =>
          /\ ~active_thinking'
          /\ ~active_thinking_message'
          /\ active_messages' = {}
          /\ active_tool_calls' = {}
          /\ active_steps' = {}]_vars

-----------------------------------------------------------------------------
(* EventHandler::handle_event (SpecHandler): what the returned mutation    *)
(* says of the changes made to the handler.                                *)

\* C40: the mutation handle_event returns carries every change made to the
\* handler during the event: when the handler's state (messages) after the
\* call differs from its value before, the mutation's state (messages) is
\* present and is the handler's current value, whichever hooks returned
\* mutations or stopped propagation.
C40_MutationCarriesChanges ==
    outcome.kind = "ok" =>
        /\ state # outcome.before.state => outcome.mutation.state = Some(state)
        /\ messages # outcome.before.messages =>
               outcome.mutation.messages = Some(messages)

-----------------------------------------------------------------------------
(* A stream that an EventVerifier accepts, transformed by a new            *)
(* FilterToolCallsMiddleware, and a new EventVerifier on what it yields.   *)

\* Events of the stream in one behaviour.
MaxPipeline == 6

RunItems == {Item("RUN_STARTED", None, "-"), Item("RUN_FINISHED", None, "-")}

\* The event of an item, as verify reads it.
EventOf(item) == Ev(item.type, IF item.id = None THEN NoId ELSE item.id[1])

InitPipeline ==
    /\ VerifierInit
    /\ messages = <<>>
    /\ state = InitialState
    /\ result = Null
    /\ subscribers = <<>>
    /\ outcome = NoOutcome
    /\ handled = 0
    /\ deltas = NoDeltas
    /\ notified = <<>>
    /\ run = NoRun
    /\ filter = NoFilter
    /\ manager = NoManager
    /\ response = NoResponse
    /\ identifiers = NoIds
    /\ pipeline \in {[NoPipeline EXCEPT !.config = c] : c \in FilterConfigs}

\* The stream yields an event its verifier accepts; the middleware's closure
\* runs on it and the verifier behind the middleware sees what it yields.
PipelinePoll(item) ==
    /\ Len(pipeline.input) < MaxPipeline
    /\ pipeline.valid
    /\ verify(pipeline.upstream, EventOf(item)).ok
    /\ \E r \in {transform(pipeline.config, pipeline.blocked_ids, item)} :
          \E d \in {IF r.out = None
                    THEN Ok(pipeline.downstream)
                    ELSE verify(pipeline.downstream, EventOf(item))} :
              pipeline' =
                  [pipeline EXCEPT
                      !.blocked_ids = r.blocked_ids,
                      !.upstream = verify(pipeline.upstream, EventOf(item)).v,
                      !.downstream = d.v,
                      !.input = Append(@, item),
                      !.output = @ \o r.out,
                      !.valid = d.ok]
    /\ UNCHANGED <<clientVars, filterVars, managerVars, responseVars, idVars>>

PipelineRun == \E item \in RunItems : PipelinePoll(item)
PipelineToolCallStart == \E item \in ToolCallStartItems : PipelinePoll(item)
PipelineToolCallArgs == \E item \in ToolCallArgsItems : PipelinePoll(item)
PipelineToolCallEnd == \E item \in ToolCallEndItems : PipelinePoll(item)
PipelineToolCallResult == \E item \in ToolCallResultItems : PipelinePoll(item)

NextPipeline ==
    \/ PipelineRun
    \/ PipelineToolCallStart
    \/ PipelineToolCallArgs
    \/ PipelineToolCallEnd
    \/ PipelineToolCallResult

SpecPipeline == InitPipeline /\ [][NextPipeline]_vars

\* C39: filtering preserves protocol validity: for every event sequence that
\* an EventVerifier accepts, every event that a new FilterToolCallsMiddleware
\* yields for it is accepted by a new EventVerifier, also when the id of a
\* blocked tool call that ended without a TOOL_CALL_RESULT is used again by
\* a TOOL_CALL_START whose name is allowed.
C39_FilterPreservesValidity == pipeline.valid

====
